---- MODULE Spec2Model ----
(***************************************************************************)
(* Window-processing pipeline of the NetMon worker (src/app/worker.py,     *)
(* src/app/ml_model.py, src/app/alerts.py).  One tick of main_loop runs    *)
(* process_pcaps_to_csv and then process_csvs_to_windows; the capture      *)
(* process, the extraction tool, the text-generation service, the          *)
(* database and the administrator are the environment.                     *)
(***************************************************************************)
EXTENDS Integers, Sequences, FiniteSets, TLC

\* ---------------------------------------------------------------- bounds
MaxSeg == 2          \* capture segments window-1 .. window-MaxSeg
MaxRows == 1         \* rows of one feature file
MaxKeep == 1         \* largest retention size tried for max_windows_keep
MaxAlerts == 3       \* no new tick starts once the alert table is this long
MaxErrors == 4       \* no further failure is injected once total_errors would pass this
MaxAggRows == 3      \* rows of the feature file aggregated on its own
MaxClock == 2        \* clock readings 0..MaxClock for direct save_window_to_db calls
MaxLlmFailed == 1    \* no further provider failure is injected once llm_summaries_failed is this
MaxKeepSaved == 2    \* largest max_windows_keep the administrator saves while the worker runs
MaxUpdates == 2      \* calls of update_metrics while status queries run
MaxApiClock == 182   \* last clock reading, in seconds, while status queries run

\* ------------------------------------------------------ program constants
MAX_RETRIES == 3
ML_THRESHOLD == 90               \* percent
CRITICAL_ATTACK_PERCENT == 50
alert_threshold_attack_percent == 10
alert_threshold_unknown_percent == 20
alert_threshold_flow_count == 1000
LABEL_ALERT_COUNT == 10
window_duration_minutes == 5
LOOP_INTERVAL_SECONDS == 60

Ids == 1..MaxSeg

\* ------------------------------------------------------------------ state
VARIABLES
    pcaps,         \* PCAP_DIR: segment id -> "fresh" | "old" (age against pcap_min_age_seconds)
    csvs,          \* CSV_DIR: segment id -> feature file
    store,         \* table windows: id -> row
    alerts,        \* table alerts, in autoincrement order
    pending,       \* AlertModel objects added to the tick's session and not committed
    session_ok,    \* the tick's session accepts further statements
    model_loaded,  \* ml_model._model is not None
    ml_enabled,    \* admin_config.ml["enabled"]
    max_windows,   \* worker.MAX_WINDOWS
    pc,            \* position of main_loop
    todo,          \* rest of the file list the running loop iterates
    cur,           \* identifier the running loop body works on
    retry_count,   \* argument of the running run_ntlflowlyzer_for_pcap call
    outcomes,      \* subprocess outcomes of the running extraction, in order
    sleeps,        \* time.sleep(RETRY_DELAY) calls of the running extraction
    result,        \* value returned by run_ntlflowlyzer_for_pcap
    aggregated,    \* ids summarise_features_and_ml was called for in this tick
    failed,        \* segments whose latest extraction failed
    handled,       \* feature files whose loop body completed in an earlier or this tick
    pruned,        \* ids the prune step has deleted
    tick0,         \* what the tick started from
    public_config, \* public_config.json as PublicConfig.load() reads it
    metrics,       \* worker._worker_metrics, the counters
    llm_enabled,   \* admin_config.llm["enabled"]
    llm_reply,     \* what generate_with_llm did for the window the loop body works on
    now,           \* datetime.now(timezone.utc) at the latest write, in clock steps
    _worker_lock,  \* worker._worker_lock: "free" or the thread that holds it
    threads,       \* the threads that touch _worker_metrics, each with its position and locals
    config_file,   \* capture.max_windows_keep in the admin configuration file
    max_windows_keep  \* admin_config.capture["max_windows_keep"] as main_loop last loaded it

vars == <<pcaps, csvs, store, alerts, pending, session_ok, model_loaded, ml_enabled,
          max_windows, pc, todo, cur, retry_count, outcomes, sleeps, result,
          aggregated, failed, handled, pruned, tick0, public_config, metrics,
          llm_enabled, llm_reply, now,
          _worker_lock, threads, config_file, max_windows_keep>>

\* ------------------------------------------------------------ feature rows
\* A row carries what the classifier returns for it: the class with the
\* highest probability, that probability in percent, and whether every
\* feature value of the row passes float().  The pipeline is run on one row
\* of each verdict (benign, attack, unknown).
Rows ==
    { [raw |-> "normal", prob |-> 95, parses |-> TRUE],
      [raw |-> "DDoS",   prob |-> 95, parses |-> TRUE],
      [raw |-> "DDoS",   prob |-> 50, parses |-> TRUE] }

RECURSIVE SeqsUpTo(_, _)
SeqsUpTo(S, n) ==
    IF n = 0 THEN {<<>>}
    ELSE LET shorter == SeqsUpTo(S, n - 1)
         IN  shorter \cup {Append(s, x) : s \in {t \in shorter : Len(t) = n - 1}, x \in S}

\* Files the extraction tool can leave behind: readable ones with 0..MaxRows
\* rows, and one csv.DictReader cannot read.
FeatureFiles ==
    {[readable |-> TRUE, rows |-> r] : r \in SeqsUpTo(Rows, MaxRows)}
        \cup {[readable |-> FALSE, rows |-> <<>>]}

\* ------------------------------------------------------------- classifier
\* str.strip().lower() of the class names the model can return.
Lower(raw) ==
    CASE raw = "normal"   -> "normal"
      [] raw = "Benign"   -> "benign"
      [] raw = "BENIGN"   -> "benign"
      [] raw = "DDoS"     -> "ddos"
      [] raw = "PortScan" -> "portscan"
      [] OTHER            -> raw

\* The benign test on the class name as the model spells it.
_normalize_label_cased(raw) ==
    IF raw \in {"benign", "normal", "background"} THEN "Benign" ELSE raw

_normalize_label(raw) ==
    IF Lower(raw) \in {"benign", "normal", "background"} THEN "Benign" ELSE raw

\* classify_row: "None" without a model, "Unknown" on any exception and
\* below the threshold, otherwise the normalized class.
\* The threshold test written with <=: a class at exactly the threshold is
\* turned into Unknown as well.
classify_row_at_or_below(row, loaded) ==
    IF ~loaded THEN "None"
    ELSE IF ~row.parses THEN "Unknown"
    ELSE IF row.prob <= ML_THRESHOLD THEN "Unknown"
    ELSE _normalize_label(row.raw)

classify_row(row, loaded) ==
    IF ~loaded THEN "None"
    ELSE IF ~row.parses THEN "Unknown"
    ELSE IF row.prob < ML_THRESHOLD THEN "Unknown"
    ELSE _normalize_label(row.raw)

\* --------------------------------------------------------- feature columns
\* The column lists of four of the nine features: the two that are also
\* summed, one with a single column name and one with three spellings (the
\* other five have one of these two shapes).
FEATURE_COLUMN_ALIASES ==
    [duration |-> <<"duration">>,
     packets_count |-> <<"packets_count">>,
     total_payload_bytes |-> <<"total_payload_bytes">>,
     fwd_packets_iat_mean |->
        <<"fwd_packets_iAT_mean", "fwd_packets_IAT_mean", "fwd_packets_iat_mean">>]

FEATURES_OF_INTEREST == DOMAIN FEATURE_COLUMN_ALIASES

\* The cells of a row, by column name; a column the file does not have is
\* not in the domain.  A row written without cols has none of the columns.
NoCols == [c \in {} |-> ""]
Cols(row) == IF "cols" \in DOMAIN row THEN row.cols ELSE NoCols

\* A float as a fraction; nan is the fraction 0/0.
NaN == [num |-> 0, den |-> 0]
Float(n) == [num |-> n, den |-> 1]
IsNaN(v) == v.den = 0

\* float(text) for the cell texts used here: "x" and "" raise ValueError,
\* "nan" is accepted and gives nan.
Parses(text) == text \in {"1", "3", "8", "nan"}
FloatOf(text) ==
    CASE text = "1" -> Float(1)
      [] text = "3" -> Float(3)
      [] text = "8" -> Float(8)
      [] OTHER      -> NaN

\* Comparison of floats: every comparison with nan is false.
Lt(a, b) == ~IsNaN(a) /\ ~IsNaN(b) /\ a.num * b.den < b.num * a.den
Leq(a, b) == ~IsNaN(a) /\ ~IsNaN(b) /\ a.num * b.den <= b.num * a.den

\* _get_numeric_from_row: <<>> for None, <<v>> for the value of the first
\* column of the list that is present, not "" and accepted by float().
RECURSIVE _get_numeric_from_row(_, _)
_get_numeric_from_row(row, aliases) ==
    IF aliases = <<>> THEN <<>>
    ELSE LET col == Head(aliases)
         IN  IF col \in DOMAIN Cols(row) /\ Cols(row)[col] # ""
                   /\ Parses(Cols(row)[col])
             THEN <<FloatOf(Cols(row)[col])>>
             ELSE _get_numeric_from_row(row, Tail(aliases))

\* "total_packets += int(pkt_val)" and the same for payload bytes stand
\* outside the row's try block: int(nan) raises ValueError and the whole
\* file fails.
IntRaises(row) ==
    \E feat \in {"packets_count", "total_payload_bytes"} :
        _get_numeric_from_row(row, FEATURE_COLUMN_ALIASES[feat]) = <<NaN>>

\* The files summarise_features_and_ml returns for.
Summarisable(file) ==
    file.readable /\ \A i \in 1..Len(file.rows) : ~IntRaises(file.rows[i])

\* int(v) of a value that is not nan.
IntOf(v) == IF IsNaN(v) THEN 0 ELSE v.num \div v.den

RECURSIVE SumInt(_, _)
SumInt(rows, feat) ==
    IF rows = <<>> THEN 0
    ELSE LET v == _get_numeric_from_row(Head(rows), FEATURE_COLUMN_ALIASES[feat])
         IN  (IF v = <<>> THEN 0 ELSE IntOf(v[1])) + SumInt(Tail(rows), feat)

\* series[feat]: the values found, in row order.
RECURSIVE Series(_, _)
Series(rows, feat) ==
    IF rows = <<>> THEN <<>>
    ELSE _get_numeric_from_row(Head(rows), FEATURE_COLUMN_ALIASES[feat])
            \o Series(Tail(rows), feat)

\* min(values) and max(values): the first value is kept until a later one
\* compares smaller (larger).
RECURSIVE MinFrom(_, _)
MinFrom(m, rest) ==
    IF rest = <<>> THEN m
    ELSE MinFrom(IF Lt(Head(rest), m) THEN Head(rest) ELSE m, Tail(rest))

RECURSIVE MaxFrom(_, _)
MaxFrom(m, rest) ==
    IF rest = <<>> THEN m
    ELSE MaxFrom(IF Lt(m, Head(rest)) THEN Head(rest) ELSE m, Tail(rest))

RECURSIVE SumNum(_)
SumNum(values) == IF values = <<>> THEN 0 ELSE Head(values).num + SumNum(Tail(values))

\* statistics.mean(values): the exact mean; nan as soon as one value is nan.
Mean(values) ==
    IF \E i \in 1..Len(values) : IsNaN(values[i]) THEN NaN
    ELSE [num |-> SumNum(values), den |-> Len(values)]

\* "for feat, values in series.items(): if not values: continue"
FeatureStatsOf(rows) ==
    [feat \in {f \in FEATURES_OF_INTEREST : Series(rows, f) # <<>>} |->
        LET values == Series(rows, feat)
        IN  [mean |-> Mean(values),
             min |-> MinFrom(Head(values), Tail(values)),
             max |-> MaxFrom(Head(values), Tail(values))]]

\* ------------------------------------------------------------- aggregation
Incr(hist, key) ==
    [k \in DOMAIN hist \cup {key} |->
        IF k \in DOMAIN hist
        THEN (IF k = key THEN hist[k] + 1 ELSE hist[k])
        ELSE 1]

EmptyHist == [k \in {} |-> 0]

ZeroCounts ==
    [flows_count |-> 0, benign_flows |-> 0, attack_flows |-> 0,
     unknown_flows |-> 0, attacks_per_label |-> EmptyHist]

\* The loop body with benign flows entered in the histogram as well.
TallyBenignListed(acc, label) ==
    LET a == [acc EXCEPT !.flows_count = @ + 1]
    IN  CASE label = "None"    -> a
          [] label = "Benign"  ->
                [a EXCEPT !.benign_flows = @ + 1,
                          !.attacks_per_label = Incr(@, label)]
          [] label = "Unknown" ->
                [a EXCEPT !.unknown_flows = @ + 1,
                          !.attacks_per_label = Incr(@, "Unknown")]
          [] OTHER ->
                [a EXCEPT !.attack_flows = @ + 1,
                          !.attacks_per_label = Incr(@, label)]

\* Tally with the label tests written as separate "if"s: an Unknown row
\* falls through into the attack branch as well.
TallyFallThrough(acc, label) ==
    LET a == [acc EXCEPT !.flows_count = @ + 1]
    IN  CASE label = "None"    -> a
          [] label = "Benign"  -> [a EXCEPT !.benign_flows = @ + 1]
          [] label = "Unknown" ->
                [a EXCEPT !.unknown_flows = @ + 1,
                          !.attack_flows = @ + 1,
                          !.attacks_per_label = Incr(Incr(@, "Unknown"), label)]
          [] OTHER ->
                [a EXCEPT !.attack_flows = @ + 1,
                          !.attacks_per_label = Incr(@, label)]

\* The body of "for row in reader" for one classified row.
Tally(acc, label) ==
    LET a == [acc EXCEPT !.flows_count = @ + 1]
    IN  CASE label = "None"    -> a
          [] label = "Benign"  -> [a EXCEPT !.benign_flows = @ + 1]
          [] label = "Unknown" ->
                [a EXCEPT !.unknown_flows = @ + 1,
                          !.attacks_per_label = Incr(@, "Unknown")]
          [] OTHER ->
                [a EXCEPT !.attack_flows = @ + 1,
                          !.attacks_per_label = Incr(@, label)]

RECURSIVE TallyRows(_, _, _, _)
TallyRows(rows, acc, use_model, loaded) ==
    IF rows = <<>> THEN acc
    ELSE TallyRows(Tail(rows),
                   IF use_model
                   THEN Tally(acc, classify_row(Head(rows), loaded))
                   ELSE [acc EXCEPT !.flows_count = @ + 1],
                   use_model, loaded)

\* The counters left as the loop counted them.
WithoutModelAsCounted(acc) == acc

\* The counters forced after the loop when the model is not used.
WithoutModel(acc) ==
    [acc EXCEPT !.benign_flows = acc.flows_count, !.attack_flows = 0,
                !.unknown_flows = 0, !.attacks_per_label = EmptyHist]

summarise_features_and_ml(file, enabled, loaded) ==
    LET use_model == loaded /\ enabled
        acc == TallyRows(file.rows, ZeroCounts, use_model, loaded)
    IN  (IF use_model THEN acc ELSE WithoutModel(acc))
            @@ [total_packets |-> SumInt(file.rows, "packets_count"),
                total_payload_bytes |-> SumInt(file.rows, "total_payload_bytes"),
                feature_stats |-> FeatureStatsOf(file.rows)]

\* ------------------------------------------------------------------ windows
parse_window_times(id) ==
    [start_time |-> id * window_duration_minutes,
     end_time   |-> id * window_duration_minutes + window_duration_minutes]

\* The row written with the counters only, the narrative column still at
\* its default.
WindowRowCountsOnly(id, agg, summary) ==
    [id |-> id,
     start_time |-> parse_window_times(id).start_time,
     end_time |-> parse_window_times(id).end_time,
     total_flows |-> agg.flows_count,
     total_packets |-> agg.total_packets,
     total_payload_bytes |-> agg.total_payload_bytes,
     feature_stats |-> agg.feature_stats,
     benign_flows |-> agg.benign_flows,
     attack_flows |-> agg.attack_flows,
     unknown_flows |-> agg.unknown_flows,
     attacks_per_label |-> agg.attacks_per_label,
     llm_summary |-> [text |-> ""]]

\* The WindowModel row save_window_to_db writes for an aggregate.
WindowRow(id, agg, summary) ==
    [id |-> id,
     start_time |-> parse_window_times(id).start_time,
     end_time |-> parse_window_times(id).end_time,
     total_flows |-> agg.flows_count,
     total_packets |-> agg.total_packets,
     total_payload_bytes |-> agg.total_payload_bytes,
     feature_stats |-> agg.feature_stats,
     benign_flows |-> agg.benign_flows,
     attack_flows |-> agg.attack_flows,
     unknown_flows |-> agg.unknown_flows,
     attacks_per_label |-> agg.attacks_per_label,
     llm_summary |-> summary]

\* The zero-row test left out.
HasFlowsUnchecked(agg) == TRUE

\* A zero-row aggregate is skipped before anything is built from it.
HasFlows(agg) == agg.flows_count # 0

\* The existence check always answering "not there".
AlreadyProcessedNever(st, id) == FALSE

\* The existence check that guards re-processing.
AlreadyProcessed(st, id) == id \in DOMAIN st

\* save_window_to_db writing a row only where none has the identifier.
save_window_to_db_insert_only(st, w, at) ==
    IF w.id \in DOMAIN st THEN st
    ELSE [i \in DOMAIN st \cup {w.id} |->
            IF i = w.id THEN w @@ [created_at |-> at, updated_at |-> at] ELSE st[i]]

\* save_window_to_db at clock reading "at": the row with the identifier
\* gets every field of the window and a new updated_at, keeping its
\* created_at; without such a row one is added, both timestamps taking
\* the column default.  The identifier is the primary key of the table.
save_window_to_db(st, w, at) ==
    IF w.id \in DOMAIN st
    THEN [st EXCEPT ![w.id] = w @@ [created_at |-> st[w.id].created_at,
                                    updated_at |-> at]]
    ELSE [i \in DOMAIN st \cup {w.id} |->
            IF i = w.id THEN w @@ [created_at |-> at, updated_at |-> at] ELSE st[i]]


\* ------------------------------------------------------------------- alerts
\* A nullable column that holds no value.
None == -1

\* The status columns of a new row of table alerts: both flags default to
\* False and both timestamps are null.
Unreviewed ==
    [acknowledged |-> FALSE, resolved |-> FALSE,
     acknowledged_at |-> None, resolved_at |-> None]

Alert(w, type, severity, rule) ==
    [window_id |-> w.id, alert_type |-> type, severity |-> severity, rule |-> rule]
        @@ Unreviewed

\* The whole percentages p for which the double nearest to p / 100, times
\* 100, rounds to a double below p (IEEE 754 binary64, round to nearest).
\* A ratio is one double whatever the two counts are, so only p matters.
RoundsShort == {29, 57, 58}

\* "percent >= bound" with percent = part / total * 100 in floating point:
\* above the bound, or exactly on it where the product does not round short.
AtLeastPercent(part, total, bound) ==
    \/ part * 100 > bound * total
    \/ part * 100 = bound * total /\ bound \notin RoundsShort

\* PublicConfig().alerts, the defaults of config.py.
DefaultAlertsConfig ==
    [enable_public_alerts |-> TRUE,
     alert_threshold_attack_percent |-> alert_threshold_attack_percent,
     alert_threshold_unknown_percent |-> alert_threshold_unknown_percent,
     alert_threshold_flow_count |-> alert_threshold_flow_count]

\* The second attack-rate test written as "if" instead of "elif".
AttackRuleBothFire(w, cfg) ==
    (IF AtLeastPercent(w.attack_flows, w.total_flows, CRITICAL_ATTACK_PERCENT)
     THEN <<Alert(w, "critical", "high", "attack_rate")>>
     ELSE <<>>)
    \o (IF AtLeastPercent(w.attack_flows, w.total_flows,
                          cfg.alert_threshold_attack_percent)
        THEN <<Alert(w, "elevated", "medium", "attack_rate")>>
        ELSE <<>>)

\* "if attack_percent >= 50: ... elif attack_percent >= threshold_attack: ..."
AttackRule(w, cfg) ==
    IF AtLeastPercent(w.attack_flows, w.total_flows, CRITICAL_ATTACK_PERCENT)
    THEN <<Alert(w, "critical", "high", "attack_rate")>>
    ELSE IF AtLeastPercent(w.attack_flows, w.total_flows,
                           cfg.alert_threshold_attack_percent)
    THEN <<Alert(w, "elevated", "medium", "attack_rate")>>
    ELSE <<>>

UnknownRule(w, cfg) ==
    IF AtLeastPercent(w.unknown_flows, w.total_flows,
                      cfg.alert_threshold_unknown_percent)
    THEN <<Alert(w, "elevated", "medium", "unknown_rate")>>
    ELSE <<>>

VolumeRule(w, cfg) ==
    IF w.total_flows >= cfg.alert_threshold_flow_count
    THEN <<Alert(w, "info", "low", "volume")>>
    ELSE <<>>

RECURSIVE LabelRules(_, _)
LabelRules(w, labels) ==
    IF labels = {} THEN <<>>
    ELSE LET l == CHOOSE x \in labels : TRUE
         IN  (IF w.attacks_per_label[l] >= LABEL_ALERT_COUNT
              THEN <<Alert(w, "elevated", "medium", l)>>
              ELSE <<>>) \o LabelRules(w, labels \ {l})

\* The two early returns ignored.
ReturnsEarlyNever(w, cfg) == FALSE

\* "if not enable_public_alerts: return" and "if total_flows == 0: return"
ReturnsEarly(w, cfg) == ~cfg.enable_public_alerts \/ w.total_flows = 0

\* The alerts check_and_create_alerts has added to the session when it
\* reaches the given line: "config" (lines 20-36), "unknown" (line 75),
\* "flows" (line 93), "commit" (line 128).
AlertsAddedBefore(w, cfg, point) ==
    IF ReturnsEarly(w, cfg) \/ point = "config" THEN <<>>
    ELSE IF point = "unknown" THEN AttackRule(w, cfg)
    ELSE IF point = "flows" THEN AttackRule(w, cfg) \o UnknownRule(w, cfg)
    ELSE AttackRule(w, cfg) \o UnknownRule(w, cfg) \o VolumeRule(w, cfg)
            \o LabelRules(w, DOMAIN w.attacks_per_label)

check_and_create_alerts(w, cfg) == AlertsAddedBefore(w, cfg, "commit")

RaisePoints == {"config", "unknown", "flows", "commit"}

\* ------------------------------------------------------------------- prune
RECURSIVE SortedIds(_)
SortedIds(S) ==
    IF S = {} THEN <<>>
    ELSE LET m == CHOOSE x \in S : \A y \in S : x <= y
         IN  <<m>> \o SortedIds(S \ {m})

\* db.query(WindowModel).order_by(WindowModel.start_time.desc()).all()
RECURSIVE ByStartDesc(_, _)
ByStartDesc(st, S) ==
    IF S = {} THEN <<>>
    ELSE LET m == CHOOSE x \in S : \A y \in S : st[x].start_time >= st[y].start_time
         IN  <<m>> \o ByStartDesc(st, S \ {m})

\* The slice taken one place too late: all_windows[MAX_WINDOWS + 1:]
WindowsToDeleteOffByOne(st, keep) ==
    LET all_windows == ByStartDesc(st, DOMAIN st)
    IN  IF Len(all_windows) > keep
        THEN {all_windows[i] : i \in (keep + 2)..Len(all_windows)}
        ELSE {}

\* all_windows[MAX_WINDOWS:] when len(all_windows) > MAX_WINDOWS
WindowsToDelete(st, keep) ==
    LET all_windows == ByStartDesc(st, DOMAIN st)
    IN  IF Len(all_windows) > keep
        THEN {all_windows[i] : i \in (keep + 1)..Len(all_windows)}
        ELSE {}

Without(st, S) == [i \in DOMAIN st \ S |-> st[i]]


\* -------------------------------------------------------------------- Init
\* WorkerMetrics as main_loop constructs it.
NoErrors ==
    [total_errors |-> 0, ntlflowlyzer_errors |-> 0, database_errors |-> 0,
     llm_summaries_failed |-> 0]

\* update_metrics("error", type=error_type)
CountError(m, error_type) ==
    [m EXCEPT !.total_errors = @ + 1,
              !.ntlflowlyzer_errors = IF error_type = "ntlflowlyzer" THEN @ + 1 ELSE @,
              !.database_errors = IF error_type = "database" THEN @ + 1 ELSE @]

\* A failure that counts k errors is injected only while the counter has room.
Room(k) == metrics.total_errors + k <= MaxErrors

\* No call of update_metrics, get_worker_health or get_worker_metrics is
\* under way.
IdleThreads ==
    [scheduler |-> [stmts |-> <<>>, calls |-> 0],
     health    |-> [pc |-> "idle", status |-> "none"],
     metrics   |-> [pc |-> "idle", fields |-> <<>>, seen |-> {}, data |-> <<>>,
                    iter |-> <<>>]]

NoTick == [store |-> <<>>, alerts |-> <<>>, clean |-> FALSE, fault |-> FALSE]

InitPipeline(enabled) ==
    /\ pcaps = <<>>
    /\ csvs = <<>>
    /\ store = <<>>
    /\ alerts = <<>>
    /\ pending = <<>>
    /\ session_ok = TRUE
    /\ model_loaded = TRUE
    /\ ml_enabled = TRUE
    /\ max_windows \in 1..MaxKeep
    /\ pc = "sleep"
    /\ todo = <<>>
    /\ cur = 0
    /\ retry_count = 0
    /\ outcomes = <<>>
    /\ sleeps = 0
    /\ result = FALSE
    /\ aggregated = {}
    /\ failed = {}
    /\ handled = {}
    /\ pruned = {}
    /\ tick0 = NoTick
    /\ public_config = DefaultAlertsConfig
    /\ metrics = NoErrors
    /\ llm_enabled = enabled
    /\ llm_reply = "not_called"
    /\ now = 0
    /\ _worker_lock = "free"
    /\ threads = IdleThreads
    /\ config_file = max_windows
    /\ max_windows_keep = max_windows

Init == InitPipeline(TRUE)

\* ------------------------------------------------------------- environment
\* tcpdump closes a new segment file; segments are named by their start
\* time and written one after the other.
Capture(id) ==
    /\ pc = "sleep"
    /\ id \notin DOMAIN pcaps
    /\ \A j \in Ids : j < id => j \in DOMAIN pcaps
    /\ pcaps' = [i \in DOMAIN pcaps \cup {id} |-> IF i = id THEN "fresh" ELSE pcaps[i]]
    /\ UNCHANGED <<csvs, store, alerts, pending, session_ok, model_loaded, ml_enabled,
                   max_windows, pc, todo, cur, retry_count, outcomes, sleeps, result,
                   aggregated, failed, handled, pruned, tick0,
                   public_config, metrics,
                   llm_enabled, llm_reply, now,
                   _worker_lock, threads, config_file, max_windows_keep>>

\* The segment's age passes pcap_min_age_seconds.
Age(id) ==
    /\ pc = "sleep"
    /\ id \in DOMAIN pcaps
    /\ pcaps[id] = "fresh"
    /\ \A j \in DOMAIN pcaps : j < id => pcaps[j] = "old"
    /\ pcaps' = [pcaps EXCEPT ![id] = "old"]
    /\ UNCHANGED <<csvs, store, alerts, pending, session_ok, model_loaded, ml_enabled,
                   max_windows, pc, todo, cur, retry_count, outcomes, sleeps, result,
                   aggregated, failed, handled, pruned, tick0,
                   public_config, metrics,
                   llm_enabled, llm_reply, now,
                   _worker_lock, threads, config_file, max_windows_keep>>

\* --------------------------------------------------- process_pcaps_to_csv
\* main_loop wakes up, reloads admin_config (ml.enabled as the administrator
\* left it) and process_pcaps_to_csv lists the segments.
TickStart(enabled) ==
    /\ pc = "sleep"
    /\ Len(alerts) < MaxAlerts
    /\ ml_enabled' = enabled
    /\ max_windows_keep' = config_file
    /\ pc' = "pcaps"
    /\ todo' = SortedIds(DOMAIN pcaps)
    /\ tick0' = [store |-> store, alerts |-> alerts,
                 clean |-> /\ DOMAIN pcaps \subseteq DOMAIN csvs
                           /\ DOMAIN csvs \subseteq handled,
                 fault |-> FALSE]
    /\ UNCHANGED <<pcaps, csvs, store, alerts, pending, session_ok, model_loaded,
                   max_windows, cur, retry_count, outcomes, sleeps,
                   result, aggregated, failed, handled, pruned,
                   public_config, metrics,
                   llm_enabled, llm_reply, now,
                   _worker_lock, threads, config_file>>

\* The age test left out.
TooFreshNever(age) == FALSE

\* "if age_sec < admin_config.capture.get("pcap_min_age_seconds", 10)",
\* with the age taken from the file's modification time.
TooFresh(age) == age = "fresh"

\* "Skip if CSV already exists" and "Avoid very fresh files".
PcapSkip ==
    /\ pc = "pcaps"
    /\ todo # <<>>
    /\ Head(todo) \in DOMAIN csvs \/ TooFresh(pcaps[Head(todo)])
    /\ todo' = Tail(todo)
    /\ UNCHANGED <<pcaps, csvs, store, alerts, pending, session_ok, model_loaded,
                   ml_enabled, max_windows, pc, cur, retry_count, outcomes, sleeps,
                   result, aggregated, failed, handled, pruned, tick0,
                   public_config, metrics,
                   llm_enabled, llm_reply, now,
                   _worker_lock, threads, config_file, max_windows_keep>>

\* The retry count carried over from the failed extraction of the tick before.
FirstRetryCountStale == MAX_RETRIES

\* The default value of the retry_count parameter.
FirstRetryCount == 0

\* run_ntlflowlyzer_for_pcap(pcap, csv_path) is called for the segment.
PcapBegin ==
    /\ pc = "pcaps"
    /\ todo # <<>>
    /\ Head(todo) \notin DOMAIN csvs
    /\ ~TooFresh(pcaps[Head(todo)])
    /\ pc' = "extract"
    /\ cur' = Head(todo)
    /\ retry_count' = FirstRetryCount
    /\ outcomes' = <<>>
    /\ sleeps' = 0
    /\ UNCHANGED <<pcaps, csvs, store, alerts, pending, session_ok, model_loaded,
                   ml_enabled, max_windows, todo, result, aggregated, failed,
                   handled, pruned, tick0,
                   public_config, metrics,
                   llm_enabled, llm_reply, now,
                   _worker_lock, threads, config_file, max_windows_keep>>

\* The retry test written with <=.
ShouldRetryInclusive(n) == n <= MAX_RETRIES

\* "if retry_count < MAX_RETRIES" after a non-zero exit
ShouldRetry(n) == n < MAX_RETRIES

\* Whether a subprocess outcome goes through the retry logic at all.
RetriedOutcome(o) == o = "nonzero"

\* The file at csv_path after an attempt that did not exit 0: the tool
\* writes its output only when it completes.
CsvAfterFailure(files, id) == files

\* update_metrics("error") calls of a failed extraction: exhausted retries
\* count before the RuntimeError is raised and again where the function's
\* own handler catches it.
ErrorsCounted(o) == IF o = "nonzero" THEN 2 ELSE 1

Finish(ok) ==
    /\ pc' = "pcap_result"
    /\ result' = ok
    /\ failed' = IF ok THEN failed \ {cur} ELSE failed \cup {cur}

\* subprocess.run returns 0 and the tool has written the feature file.
ExtractOk(file) ==
    /\ pc = "extract"
    /\ outcomes' = Append(outcomes, "ok")
    /\ csvs' = [i \in DOMAIN csvs \cup {cur} |-> IF i = cur THEN file ELSE csvs[i]]
    /\ Finish(TRUE)
    /\ UNCHANGED <<pcaps, store, alerts, pending, session_ok, model_loaded, ml_enabled,
                   max_windows, todo, cur, retry_count, sleeps, aggregated, handled,
                   pruned, tick0,
                   public_config, metrics,
                   llm_enabled, llm_reply, now,
                   _worker_lock, threads, config_file, max_windows_keep>>

\* subprocess.run returns non-zero, raises TimeoutExpired or raises another
\* exception (the binary cannot be started).
ExtractFail(o) ==
    /\ pc = "extract"
    /\ outcomes' = Append(outcomes, o)
    /\ csvs' = CsvAfterFailure(csvs, cur)
    /\ tick0' = [tick0 EXCEPT !.fault = TRUE]
    /\ IF RetriedOutcome(o) /\ ShouldRetry(retry_count)
       THEN /\ sleeps' = sleeps + 1
            /\ retry_count' = retry_count + 1
            /\ UNCHANGED <<pc, result, failed, metrics>>
       ELSE /\ Room(ErrorsCounted(o))
            /\ metrics' = IF o = "nonzero"
                          THEN CountError(CountError(metrics, "ntlflowlyzer"), "ntlflowlyzer")
                          ELSE CountError(metrics, "ntlflowlyzer")
            /\ Finish(FALSE)
            /\ UNCHANGED <<sleeps, retry_count>>
    /\ UNCHANGED <<pcaps, store, alerts, pending, session_ok, model_loaded, ml_enabled,
                   max_windows, todo, cur, aggregated, handled, pruned,
                   public_config,
                   llm_enabled, llm_reply, now,
                   _worker_lock, threads, config_file, max_windows_keep>>

\* Back in process_pcaps_to_csv: the result is counted, next segment.
PcapResult ==
    /\ pc = "pcap_result"
    /\ pc' = "pcaps"
    /\ todo' = Tail(todo)
    /\ cur' = 0
    /\ retry_count' = 0
    /\ outcomes' = <<>>
    /\ sleeps' = 0
    /\ result' = FALSE
    /\ UNCHANGED <<pcaps, csvs, store, alerts, pending, session_ok, model_loaded,
                   ml_enabled, max_windows, aggregated, failed, handled, pruned, tick0,
                   public_config, metrics,
                   llm_enabled, llm_reply, now,
                   _worker_lock, threads, config_file, max_windows_keep>>

\* Only the newest feature file listed.
CsvFilesNewestOnly(dir) ==
    IF DOMAIN dir = {} THEN <<>>
    ELSE <<CHOOSE i \in DOMAIN dir : \A j \in DOMAIN dir : j <= i>>

\* "csv_files = sorted(CSV_DIR.glob("window-*.csv"))"
CsvFiles(dir) == SortedIds(DOMAIN dir)

\* process_pcaps_to_csv returns; process_csvs_to_windows opens its session
\* and lists the feature files.
PcapsDone ==
    /\ pc = "pcaps"
    /\ todo = <<>>
    /\ pc' = "csvs"
    /\ todo' = CsvFiles(csvs)
    /\ UNCHANGED <<pcaps, csvs, store, alerts, pending, session_ok, model_loaded,
                   ml_enabled, max_windows, cur, retry_count, outcomes, sleeps,
                   result, aggregated, failed, handled, pruned, tick0,
                   public_config, metrics,
                   llm_enabled, llm_reply, now,
                   _worker_lock, threads, config_file, max_windows_keep>>


\* ------------------------------------------------- process_csvs_to_windows
LoopVarsUnchanged == UNCHANGED <<retry_count, outcomes, sleeps, result>>

\* "Check if already processed": the identifier has a row, continue.
CsvSkipExisting ==
    /\ pc = "csvs" /\ session_ok /\ todo # <<>>
    /\ AlreadyProcessed(store, Head(todo))
    /\ todo' = Tail(todo)
    /\ handled' = handled \cup {Head(todo)}
    /\ LoopVarsUnchanged
    /\ UNCHANGED <<pcaps, csvs, store, alerts, pending, session_ok, model_loaded,
                   ml_enabled, max_windows, pc, cur, aggregated, failed, pruned, tick0,
                   public_config, metrics,
                   llm_enabled, llm_reply, now,
                   _worker_lock, threads, config_file, max_windows_keep>>

\* The exception leaving the for loop: no further file is tried.
RestAfterFailureNone(files) == <<>>

\* The handler is inside the for loop: the files after the failed one
\* are still to do.
RestAfterFailure(files) == Tail(files)

\* summarise_features_and_ml raises on a file csv cannot read and on a
\* packet or byte cell int() rejects; its own handler and the loop body's
\* handler each count the error, and the loop goes on.
CsvMalformed ==
    /\ pc = "csvs" /\ session_ok /\ todo # <<>>
    /\ ~AlreadyProcessed(store, Head(todo))
    /\ ~Summarisable(csvs[Head(todo)])
    /\ Room(2)
    /\ todo' = RestAfterFailure(todo)
    /\ aggregated' = aggregated \cup {Head(todo)}
    /\ tick0' = [tick0 EXCEPT !.fault = TRUE]
    /\ metrics' = CountError(CountError(metrics, "csv_processing"), "csv_processing")
    /\ LoopVarsUnchanged
    /\ UNCHANGED <<pcaps, csvs, store, alerts, pending, session_ok, model_loaded,
                   ml_enabled, max_windows, pc, cur, failed, handled, pruned,
                   public_config,
                   llm_enabled, llm_reply, now,
                   _worker_lock, threads, config_file, max_windows_keep>>

\* "if flows_count == 0: ... continue"
CsvZeroRows ==
    /\ pc = "csvs" /\ session_ok /\ todo # <<>>
    /\ ~AlreadyProcessed(store, Head(todo))
    /\ Summarisable(csvs[Head(todo)])
    /\ ~HasFlows(summarise_features_and_ml(csvs[Head(todo)], ml_enabled, model_loaded))
    /\ todo' = Tail(todo)
    /\ aggregated' = aggregated \cup {Head(todo)}
    /\ handled' = handled \cup {Head(todo)}
    /\ LoopVarsUnchanged
    /\ UNCHANGED <<pcaps, csvs, store, alerts, pending, session_ok, model_loaded,
                   ml_enabled, max_windows, pc, cur, failed, pruned, tick0,
                   public_config, metrics,
                   llm_enabled, llm_reply, now,
                   _worker_lock, threads, config_file, max_windows_keep>>

\* "{x:.1f}" of 100.0 * part / flows, in tenths of a percent.
PercentText(part, flows) == (2000 * part + flows) \div (2 * flows)

\* build_rule_based_summary: what the lines of the text are made from.  The
\* label line prints the three largest counts, which is every label the
\* rows here can produce; the order among equal counts is left out.
build_rule_based_summary(id, agg) ==
    [window |-> parse_window_times(id),
     flows |-> agg.flows_count,
     packets |-> agg.total_packets,
     payload |-> agg.total_payload_bytes,
     classification |->
        IF agg.flows_count > 0
        THEN <<PercentText(agg.benign_flows, agg.flows_count),
               PercentText(agg.attack_flows, agg.flows_count),
               PercentText(agg.unknown_flows, agg.flows_count)>>
        ELSE <<>>,
     top_attacks |-> agg.attacks_per_label]

\* What a generate_with_llm call can do: return text, return "" (the
\* provider's body holds no or blank text), return None (its handler caught
\* a timeout, a transport or HTTP error or a body of another shape), or
\* raise ValueError (unknown provider, API key not configured).
LlmReplies == {"text", "empty", "error", "value_error"}

\* The text a provider returned.
LlmText == [text |-> "llm"]

\* update_metrics("llm_failed") is reached from "if not result" and from
\* the except branch.
LlmFailed(enabled, reply) == enabled /\ reply # "text"

\* update_metrics("llm_failed")
CountLlmFailed(m) == [m EXCEPT !.llm_summaries_failed = @ + 1]

\* generate_llm_summary with the "if not result" test left out: what the
\* provider returned is the summary, blank or not.
generate_llm_summary_unchecked(id, agg, enabled, reply) ==
    IF ~enabled THEN build_rule_based_summary(id, agg)
    ELSE CASE reply = "text"  -> LlmText
           [] reply = "empty" -> [text |-> ""]
           [] OTHER           -> build_rule_based_summary(id, agg)

\* generate_llm_summary: the rule-based summary when the provider is
\* switched off, when the call returns nothing and when it raises;
\* otherwise the provider's text.
generate_llm_summary(id, agg, enabled, reply) ==
    IF ~enabled THEN build_rule_based_summary(id, agg)
    ELSE IF reply = "text" THEN LlmText
    ELSE build_rule_based_summary(id, agg)

\* The failed write left in the table.
StoreAfterWriteFailureKept(st, w, at) == save_window_to_db(st, w, at)

\* "except Exception: ... db.rollback()" in save_window_to_db: the table is
\* what it was before the call.
StoreAfterWriteFailure(st, w, at) == st

\* Aggregation, narrative and save_window_to_db for a file with rows.  The
\* commit of the window also writes what the session still held; a failed
\* write is rolled back and ends the loop body.
CsvSave(reply, db_ok) ==
    /\ pc = "csvs" /\ session_ok /\ todo # <<>>
    /\ ~AlreadyProcessed(store, Head(todo))
    /\ Summarisable(csvs[Head(todo)])
    /\ LET id == Head(todo)
           agg == summarise_features_and_ml(csvs[id], ml_enabled, model_loaded)
           summary == generate_llm_summary(id, agg, llm_enabled, reply)
           counted == IF LlmFailed(llm_enabled, reply)
                      THEN CountLlmFailed(metrics) ELSE metrics
       IN  /\ HasFlows(agg)
           /\ LlmFailed(llm_enabled, reply) => metrics.llm_summaries_failed < MaxLlmFailed
           /\ llm_reply' = IF llm_enabled THEN reply ELSE "not_called"
           /\ aggregated' = aggregated \cup {id}
           /\ tick0' = [tick0 EXCEPT !.fault = @ \/ LlmFailed(llm_enabled, reply) \/ ~db_ok]
           /\ pending' = <<>>
           /\ IF db_ok
              THEN /\ store' = save_window_to_db(store, WindowRow(id, agg, summary), now)
                   /\ alerts' = alerts \o pending
                   /\ pc' = "alerts"
                   /\ cur' = id
                   /\ metrics' = counted
                   /\ UNCHANGED todo
              ELSE /\ Room(2)
                   /\ metrics' = CountError(CountError(counted, "database"), "csv_processing")
                   /\ store' = StoreAfterWriteFailure(store, WindowRow(id, agg, summary), now)
                   /\ todo' = Tail(todo)
                   /\ UNCHANGED <<alerts, pc, cur>>
    /\ LoopVarsUnchanged
    /\ UNCHANGED <<pcaps, csvs, session_ok, model_loaded, ml_enabled, max_windows,
                   failed, handled, pruned, public_config, llm_enabled, now,
                   _worker_lock, threads, config_file, max_windows_keep>>

\* The handler undoing the window write.
StoreRolledBack(st, id) == [i \in DOMAIN st \ {id} |-> st[i]]

\* What the handler around check_and_create_alerts leaves of the windows
\* table when the call raises: the committed window is not touched.
StoreAfterAlertFailure(st, id) == st

\* The alerts table left as it was, for the caller to write.
CommittedByCaller(table, held, created) == table

\* "if created_alerts: db.commit()" inside check_and_create_alerts: the
\* table after the commit holds what the session held and what was created.
Committed(table, held, created) == table \o held \o created

\* check_and_create_alerts returns: the created alerts are committed
\* (only when there are any), together with what the session still held.
AlertsOk ==
    /\ pc = "alerts"
    /\ LET created == check_and_create_alerts(store[cur], public_config)
       IN  IF created # <<>>
           THEN alerts' = Committed(alerts, pending, created) /\ pending' = <<>>
           ELSE UNCHANGED <<alerts, pending>>
    /\ pc' = "csvs"
    /\ todo' = Tail(todo)
    /\ cur' = 0
    /\ handled' = handled \cup {cur}
    /\ LoopVarsUnchanged
    /\ llm_reply' = "not_called"
    /\ UNCHANGED <<pcaps, csvs, store, session_ok, model_loaded, ml_enabled,
                   max_windows, aggregated, failed, pruned, tick0,
                   public_config, metrics, llm_enabled, now,
                   _worker_lock, threads, config_file, max_windows_keep>>

\* check_and_create_alerts raises at the given line and the handler logs
\* it.  Alerts added before the line stay in the session; a failed commit
\* discards them and may leave the session unusable, since the handler
\* does not roll back.
AlertsRaise(point, usable) ==
    /\ pc = "alerts"
    /\ point = "commit" => check_and_create_alerts(store[cur], public_config) # <<>>
    /\ point \in {"unknown", "flows"} => ~ReturnsEarly(store[cur], public_config)
    /\ point # "commit" => usable
    /\ ~usable => Room(1)
    /\ store' = StoreAfterAlertFailure(store, cur)
    /\ pending' = IF point = "commit" THEN <<>>
                  ELSE pending \o AlertsAddedBefore(store[cur], public_config, point)
    /\ session_ok' = usable
    /\ tick0' = [tick0 EXCEPT !.fault = TRUE]
    /\ pc' = "csvs"
    /\ todo' = Tail(todo)
    /\ cur' = 0
    /\ handled' = handled \cup {cur}
    /\ LoopVarsUnchanged
    /\ llm_reply' = "not_called"
    /\ UNCHANGED <<pcaps, csvs, alerts, model_loaded, ml_enabled, max_windows,
                   aggregated, failed, pruned, public_config, metrics, llm_enabled, now,
                   _worker_lock, threads, config_file, max_windows_keep>>

\* The try block of main_loop is left; "sleep_time = admin_config.capture.get(
\* "worker_interval_seconds", 60)" and "time.sleep(sleep_time)" follow it,
\* outside any handler.  With a usable interval the loop sleeps; with a
\* value time.sleep rejects (a string, null, a negative number) the
\* exception leaves main_loop and the process ends.
AfterTick(sleep_time_ok) == IF sleep_time_ok THEN "sleep" ELSE "crashed"

EndTick(sleep_time_ok) ==
    /\ pc' = AfterTick(sleep_time_ok)
    /\ todo' = <<>>
    /\ pending' = <<>>
    /\ session_ok' = TRUE
    /\ aggregated' = {}
    /\ tick0' = NoTick
    /\ ml_enabled' = TRUE

\* The alerts of a deleted window deleted with it.
AlertsAfterPruneCascade(table, gone) ==
    SelectSeq(table, LAMBDA a : a.window_id \notin gone)

\* alerts.window_id is a plain indexed column, no foreign key: deleting a
\* row of table windows leaves table alerts alone.
AlertsAfterPrune(table, gone) == table

\* "Clean up old windows": the windows after the first MAX_WINDOWS by
\* start time are deleted and the deletion committed; the session is
\* closed and main_loop goes to sleep.
Prune(sleep_time_ok) ==
    /\ pc = "csvs" /\ session_ok /\ todo = <<>>
    /\ LET gone == WindowsToDelete(store, max_windows)
       IN  /\ store' = Without(store, gone)
           /\ pruned' = pruned \cup gone
           /\ alerts' = AlertsAfterPrune(IF gone # {} THEN alerts \o pending ELSE alerts,
                                         gone)
    /\ EndTick(sleep_time_ok)
    /\ LoopVarsUnchanged
    /\ UNCHANGED <<pcaps, csvs, model_loaded, max_windows, cur, failed, handled,
                   public_config, metrics,
                   llm_enabled, llm_reply, now,
                   _worker_lock, threads, config_file, max_windows_keep>>

\* The next statement on an unusable session raises; process_csvs_to_windows
\* closes the session and main_loop logs the error and goes to sleep.
SessionError(sleep_time_ok) ==
    /\ pc = "csvs" /\ ~session_ok
    /\ metrics' = CountError(metrics, "csv_processing")
    /\ EndTick(sleep_time_ok)
    /\ LoopVarsUnchanged
    /\ UNCHANGED <<pcaps, csvs, store, alerts, model_loaded, max_windows,
                   cur, failed, handled, pruned,
                   public_config,
                   llm_enabled, llm_reply, now,
                   _worker_lock, threads, config_file, max_windows_keep>>

\* -------------------------------------------------------------------- Next
Next ==
    \/ \E id \in Ids : Capture(id)
    \/ \E id \in Ids : Age(id)
    \/ \E enabled \in BOOLEAN : TickStart(enabled)
    \/ PcapSkip
    \/ PcapBegin
    \/ \E file \in FeatureFiles : ExtractOk(file)
    \/ \E o \in {"nonzero", "timeout", "error"} : ExtractFail(o)
    \/ PcapResult
    \/ PcapsDone
    \/ CsvSkipExisting
    \/ CsvMalformed
    \/ CsvZeroRows
    \/ \E reply \in LlmReplies, db_ok \in BOOLEAN : CsvSave(reply, db_ok)
    \/ AlertsOk
    \/ \E point \in RaisePoints, usable \in BOOLEAN : AlertsRaise(point, usable)
    \/ \E sleep_time_ok \in BOOLEAN : Prune(sleep_time_ok)
    \/ \E sleep_time_ok \in BOOLEAN : SessionError(sleep_time_ok)

Spec == Init /\ [][Next]_vars

\* main_loop is a thread that keeps running: "while _worker_running" starts
\* tick after tick and every call inside a tick returns or raises (the
\* extraction and the provider call have timeouts).  New segments and
\* their ageing are up to the capture process.
TickStep ==
    \/ \E enabled \in BOOLEAN : TickStart(enabled)
    \/ PcapSkip
    \/ PcapBegin
    \/ \E file \in FeatureFiles : ExtractOk(file)
    \/ \E o \in {"nonzero", "timeout", "error"} : ExtractFail(o)
    \/ PcapResult
    \/ PcapsDone
    \/ CsvSkipExisting
    \/ CsvMalformed
    \/ CsvZeroRows
    \/ \E reply \in LlmReplies, db_ok \in BOOLEAN : CsvSave(reply, db_ok)
    \/ AlertsOk
    \/ \E point \in RaisePoints, usable \in BOOLEAN : AlertsRaise(point, usable)
    \/ \E sleep_time_ok \in BOOLEAN : Prune(sleep_time_ok)
    \/ \E sleep_time_ok \in BOOLEAN : SessionError(sleep_time_ok)

\* The pipeline with narrative enrichment switched off in the admin
\* configuration, and the loop kept running.
InitFair == InitPipeline(FALSE)

SpecFair == InitFair /\ [][Next]_vars /\ WF_vars(TickStep)

\* ------------------------------------------- the configuration is changed
\* The administrator saves another max_windows_keep while the worker runs.
\* main_loop loads the file into admin_config at the start of the next
\* tick; MAX_WINDOWS was taken from the file when the module was imported.
SaveConfig(keep) ==
    /\ keep # config_file
    /\ config_file' = keep
    /\ UNCHANGED <<pcaps, csvs, store, alerts, pending, session_ok, model_loaded,
                   ml_enabled, max_windows, pc, todo, cur, retry_count, outcomes,
                   sleeps, result, aggregated, failed, handled, pruned, tick0,
                   public_config, metrics, llm_enabled, llm_reply, now,
                   _worker_lock, threads, max_windows_keep>>

NextConfig ==
    \/ Next
    \/ \E keep \in 1..MaxKeepSaved : SaveConfig(keep)

SpecConfig == InitFair /\ [][NextConfig]_vars

\* ------------------------------------------------ one feature file alone
\* The loop body of process_csvs_to_windows for a single feature file of up
\* to MaxAggRows rows, with and without a loaded model and with
\* classification switched on and off.  The rows cover each benign
\* spelling at probability 1.0, attack classes at, above and below the
\* threshold, a benign class below it, and a row whose classification
\* raises (parses = FALSE: float() or predict_proba fails).
AggRows ==
    { [raw |-> "Benign",   prob |-> 100, parses |-> TRUE],
      [raw |-> "BENIGN",   prob |-> 100, parses |-> TRUE],
      [raw |-> "DDoS",     prob |-> 95,  parses |-> TRUE],
      [raw |-> "DDoS",     prob |-> 90,  parses |-> TRUE],
      [raw |-> "DDoS",     prob |-> 89,  parses |-> TRUE],
      [raw |-> "normal",   prob |-> 50,  parses |-> TRUE],
      [raw |-> "PortScan", prob |-> 95,  parses |-> TRUE],
      [raw |-> "DDoS",     prob |-> 95,  parses |-> FALSE] }

AggFiles ==
    {[readable |-> TRUE, rows |-> r] : r \in SeqsUpTo(AggRows, MaxAggRows)}
        \cup {[readable |-> FALSE, rows |-> <<>>]}

InitAgg ==
    /\ pcaps = [i \in {1} |-> "old"]
    /\ \E file \in AggFiles : csvs = [i \in {1} |-> file]
    /\ store = <<>>
    /\ alerts = <<>>
    /\ pending = <<>>
    /\ session_ok = TRUE
    /\ model_loaded \in BOOLEAN
    /\ ml_enabled \in BOOLEAN
    /\ max_windows = 1
    /\ pc = "csvs"
    /\ todo = <<1>>
    /\ cur = 0
    /\ retry_count = 0
    /\ outcomes = <<>>
    /\ sleeps = 0
    /\ result = FALSE
    /\ aggregated = {}
    /\ failed = {}
    /\ handled = {}
    /\ pruned = {}
    /\ tick0 = NoTick
    /\ public_config = DefaultAlertsConfig
    /\ metrics = NoErrors
    /\ llm_enabled \in BOOLEAN
    /\ llm_reply = "not_called"
    /\ now = 0
    /\ _worker_lock = "free"
    /\ threads = IdleThreads
    /\ config_file = max_windows
    /\ max_windows_keep = max_windows

NextAgg ==
    \/ CsvMalformed
    \/ CsvZeroRows
    \/ \E reply \in LlmReplies, db_ok \in BOOLEAN : CsvSave(reply, db_ok)
    \/ AlertsOk

SpecAgg == InitAgg /\ [][NextAgg]_vars

\* --------------------------------------------- feature statistics alone
\* The same loop body for one feature file of up to MaxAggRows rows whose
\* cells differ: every column present; cells that are empty, not numeric
\* or missing, so that a later spelling of the column supplies the value
\* or none does; a file without any of the columns; cells holding "nan"
\* in a statistics column and in the packet column.
StatCols ==
    { ("packets_count" :> "3") @@ ("total_payload_bytes" :> "8")
        @@ ("duration" :> "1") @@ ("fwd_packets_iAT_mean" :> "3"),
      ("packets_count" :> "") @@ ("duration" :> "8")
        @@ ("fwd_packets_iAT_mean" :> "x") @@ ("fwd_packets_IAT_mean" :> "8")
        @@ ("fwd_packets_iat_mean" :> "1"),
      ("packets_count" :> "x") @@ ("total_payload_bytes" :> "3")
        @@ ("fwd_packets_iAT_mean" :> "") @@ ("fwd_packets_iat_mean" :> "1"),
      ("packets_count" :> "1") @@ ("total_payload_bytes" :> "")
        @@ ("duration" :> "x") @@ ("fwd_packets_IAT_mean" :> "x"),
      NoCols,
      ("packets_count" :> "1") @@ ("duration" :> "nan")
        @@ ("fwd_packets_iAT_mean" :> "nan") @@ ("fwd_packets_IAT_mean" :> "1"),
      ("packets_count" :> "nan") @@ ("duration" :> "3") }

StatRows == {[raw |-> "normal", prob |-> 95, parses |-> TRUE, cols |-> c] : c \in StatCols}

StatFiles == {[readable |-> TRUE, rows |-> r] : r \in SeqsUpTo(StatRows, MaxAggRows)}

InitStats ==
    /\ pcaps = [i \in {1} |-> "old"]
    /\ csvs \in {[i \in {1} |-> file] : file \in StatFiles}
    /\ store = <<>>
    /\ alerts = <<>>
    /\ pending = <<>>
    /\ session_ok = TRUE
    /\ model_loaded = TRUE
    /\ ml_enabled = TRUE
    /\ max_windows = 1
    /\ pc = "csvs"
    /\ todo = <<1>>
    /\ cur = 0
    /\ retry_count = 0
    /\ outcomes = <<>>
    /\ sleeps = 0
    /\ result = FALSE
    /\ aggregated = {}
    /\ failed = {}
    /\ handled = {}
    /\ pruned = {}
    /\ tick0 = NoTick
    /\ public_config = DefaultAlertsConfig
    /\ metrics = NoErrors
    /\ llm_enabled = FALSE
    /\ llm_reply = "not_called"
    /\ now = 0
    /\ _worker_lock = "free"
    /\ threads = IdleThreads
    /\ config_file = max_windows
    /\ max_windows_keep = max_windows

SpecStats == InitStats /\ [][NextAgg]_vars

\* ------------------------------------------- save_window_to_db on its own
\* save_window_to_db called directly, at a later or the same clock reading,
\* for windows with identifier 1 or 2 built from two different aggregates
\* and two narratives, on a table that starts with none, one or both of
\* the identifiers.  A failing write is rolled back and counted.
UpsertAggregates ==
    { summarise_features_and_ml([readable |-> TRUE, rows |-> r], TRUE, TRUE) :
        r \in { <<[raw |-> "normal", prob |-> 95, parses |-> TRUE]>>,
                <<[raw |-> "DDoS", prob |-> 95, parses |-> TRUE,
                   cols |-> ("packets_count" :> "3") @@ ("duration" :> "8")],
                  [raw |-> "DDoS", prob |-> 50, parses |-> TRUE]>> } }

UpsertWindows ==
    { WindowRow(id, agg, summary) :
        id \in 1..2, agg \in UpsertAggregates,
        summary \in {LlmText, [text |-> "other"]} }

UpsertTables ==
    { [i \in S |-> f[i] @@ [created_at |-> 0, updated_at |-> 0]] :
        S \in SUBSET (1..2),
        f \in [1..2 -> UpsertWindows] } 

Upsert(w, at, db_ok) ==
    /\ pc = "save"
    /\ at >= now
    /\ now' = at
    /\ cur' = w.id
    /\ IF db_ok
       THEN /\ store' = save_window_to_db(store, w, at)
            /\ UNCHANGED metrics
       ELSE /\ Room(1)
            /\ metrics' = CountError(metrics, "database")
            /\ UNCHANGED store
    /\ LoopVarsUnchanged
    /\ UNCHANGED <<pcaps, csvs, alerts, pending, session_ok, model_loaded, ml_enabled,
                   max_windows, pc, todo, aggregated, failed, handled, pruned, tick0,
                   public_config, llm_enabled, llm_reply,
                   _worker_lock, threads, config_file, max_windows_keep>>

InitUpsert ==
    /\ pcaps = <<>>
    /\ csvs = <<>>
    /\ store \in {t \in UpsertTables : \A i \in DOMAIN t : t[i].id = i}
    /\ alerts = <<>>
    /\ pending = <<>>
    /\ session_ok = TRUE
    /\ model_loaded = TRUE
    /\ ml_enabled = TRUE
    /\ max_windows = 1
    /\ pc = "save"
    /\ todo = <<>>
    /\ cur = 0
    /\ retry_count = 0
    /\ outcomes = <<>>
    /\ sleeps = 0
    /\ result = FALSE
    /\ aggregated = {}
    /\ failed = {}
    /\ handled = {}
    /\ pruned = {}
    /\ tick0 = NoTick
    /\ public_config = DefaultAlertsConfig
    /\ metrics = NoErrors
    /\ llm_enabled = TRUE
    /\ llm_reply = "not_called"
    /\ now = 0
    /\ _worker_lock = "free"
    /\ threads = IdleThreads
    /\ config_file = max_windows
    /\ max_windows_keep = max_windows

NextUpsert ==
    \E w \in UpsertWindows, at \in 0..MaxClock, db_ok \in BOOLEAN : Upsert(w, at, db_ok)

SpecUpsert == InitUpsert /\ [][NextUpsert]_vars

\* --------------------------------------------- alert evaluation on its own
\* check_and_create_alerts called for one saved window whose counters are
\* drawn from values around the rule bounds, under each alerts section
\* public_config.json can hold, with the session empty or still holding an
\* alert an earlier evaluation added before it raised.
EvalTotals == {0, 100, 999, 1000}
EvalAttacks == {0, 9, 10, 29, 49, 50}
EvalUnknowns == {0, 19, 20, 58}
EvalSplits == {0, 9, 10}

\* attacks_per_label of a window with the given counts: the attack flows
\* under two labels, the unknown flows under "Unknown", no zero entries.
EvalHist(attack, second, unknown) ==
    LET keys == (IF attack - second > 0 THEN {"DDoS"} ELSE {})
                    \cup (IF second > 0 THEN {"PortScan"} ELSE {})
                    \cup (IF unknown > 0 THEN {"Unknown"} ELSE {})
    IN  [k \in keys |-> CASE k = "DDoS" -> attack - second
                          [] k = "PortScan" -> second
                          [] OTHER -> unknown]

EvalWindows ==
    { WindowRow(1, [flows_count |-> t, benign_flows |-> t - a - u, attack_flows |-> a,
                    unknown_flows |-> u, attacks_per_label |-> EvalHist(a, l, u),
                    total_packets |-> 0, total_payload_bytes |-> 0,
                    feature_stats |-> NoCols],
                "rule_based") :
        <<t, a, l, u>> \in { q \in EvalTotals \X EvalAttacks \X EvalSplits \X EvalUnknowns :
                                q[2] + q[4] <= q[1] /\ q[3] <= q[2] } }

AlertsConfigs ==
    [enable_public_alerts : BOOLEAN,
     alert_threshold_attack_percent : {alert_threshold_attack_percent, 29},
     alert_threshold_unknown_percent : {alert_threshold_unknown_percent, 58},
     alert_threshold_flow_count : {alert_threshold_flow_count}]

HeldAlert == [window_id |-> 0, alert_type |-> "elevated", severity |-> "medium",
              rule |-> "unknown_rate"] @@ Unreviewed

InitEval ==
    /\ pcaps = <<>>
    /\ csvs = <<>>
    /\ \E w \in EvalWindows : store = [i \in {1} |-> w]
    /\ alerts = <<>>
    /\ pending \in {<<>>, <<HeldAlert>>}
    /\ session_ok = TRUE
    /\ model_loaded = TRUE
    /\ ml_enabled = TRUE
    /\ max_windows = 1
    /\ pc = "alerts"
    /\ todo = <<1>>
    /\ cur = 1
    /\ retry_count = 0
    /\ outcomes = <<>>
    /\ sleeps = 0
    /\ result = FALSE
    /\ aggregated = {1}
    /\ failed = {}
    /\ handled = {}
    /\ pruned = {}
    /\ tick0 = NoTick
    /\ public_config \in AlertsConfigs
    /\ metrics = NoErrors
    /\ llm_enabled = TRUE
    /\ llm_reply = "not_called"
    /\ now = 0
    /\ _worker_lock = "free"
    /\ threads = IdleThreads
    /\ config_file = max_windows
    /\ max_windows_keep = max_windows

NextEval ==
    \/ AlertsOk
    \/ \E point \in RaisePoints, usable \in BOOLEAN : AlertsRaise(point, usable)

SpecEval == InitEval /\ [][NextEval]_vars

\* ------------------------------------------- the operator and the alerts
\* The two admin endpoints that review an alert, next to a tick that saves
\* a window and prunes another.  Each endpoint has a session of its own
\* and commits; an identifier without a row is answered 404.
OpsFrame ==
    UNCHANGED <<pcaps, csvs, store, pending, session_ok, model_loaded, ml_enabled,
                max_windows, pc, todo, cur, retry_count, outcomes, sleeps, result,
                aggregated, failed, handled, pruned, tick0, public_config, metrics,
                llm_enabled, llm_reply, now,
                _worker_lock, threads, config_file, max_windows_keep>>

acknowledge_alert(alert_id) ==
    /\ alert_id \in 1..Len(alerts)
    /\ alerts' = [alerts EXCEPT ![alert_id] =
                    [@ EXCEPT !.acknowledged = TRUE, !.acknowledged_at = now]]
    /\ OpsFrame

resolve_alert(alert_id) ==
    /\ alert_id \in 1..Len(alerts)
    /\ alerts' = [alerts EXCEPT ![alert_id] =
                    [@ EXCEPT !.resolved = TRUE, !.resolved_at = now]]
    /\ OpsFrame

\* The feature file of segment 1: one flow the model calls an attack.
OpsFile == [readable |-> TRUE,
            rows |-> <<[raw |-> "DDoS", prob |-> 95, parses |-> TRUE]>>]

\* The window an earlier tick saved for segment 1.
OpsWindow ==
    LET agg == summarise_features_and_ml(OpsFile, TRUE, TRUE)
    IN  WindowRow(1, agg, generate_llm_summary(1, agg, TRUE, "text"))

\* A tick has reached process_csvs_to_windows.  Segment 1 has its window
\* and the alerts evaluated for it; the feature file of segment 2 is new.
InitOps ==
    /\ pcaps = [i \in {1, 2} |-> "old"]
    /\ \E file \in {f \in FeatureFiles : f.readable /\ f.rows # <<>>} :
          csvs = [i \in {1, 2} |-> IF i = 1 THEN OpsFile ELSE file]
    /\ store = save_window_to_db(<<>>, OpsWindow, 0)
    /\ alerts = check_and_create_alerts(OpsWindow, DefaultAlertsConfig)
    /\ pending = <<>>
    /\ session_ok = TRUE
    /\ model_loaded = TRUE
    /\ ml_enabled = TRUE
    /\ max_windows = 1
    /\ pc = "csvs"
    /\ todo = <<1, 2>>
    /\ cur = 0
    /\ retry_count = 0
    /\ outcomes = <<>>
    /\ sleeps = 0
    /\ result = FALSE
    /\ aggregated = {}
    /\ failed = {}
    /\ handled = {1}
    /\ pruned = {}
    /\ tick0 = [store |-> store, alerts |-> alerts, clean |-> FALSE, fault |-> FALSE]
    /\ public_config = DefaultAlertsConfig
    /\ metrics = NoErrors
    /\ llm_enabled = TRUE
    /\ llm_reply = "not_called"
    /\ now = 0
    /\ _worker_lock = "free"
    /\ threads = IdleThreads
    /\ config_file = max_windows
    /\ max_windows_keep = max_windows

NextOps ==
    \/ CsvSkipExisting
    \/ \E reply \in LlmReplies, db_ok \in BOOLEAN : CsvSave(reply, db_ok)
    \/ AlertsOk
    \/ \E point \in RaisePoints, usable \in BOOLEAN : AlertsRaise(point, usable)
    \/ \E sleep_time_ok \in BOOLEAN : Prune(sleep_time_ok)
    \/ \E sleep_time_ok \in BOOLEAN : SessionError(sleep_time_ok)
    \/ \E alert_id \in 1..MaxAlerts : acknowledge_alert(alert_id)
    \/ \E alert_id \in 1..MaxAlerts : resolve_alert(alert_id)

SpecOps == InitOps /\ [][NextOps]_vars

\* ------------------------------------------- the metrics and their readers
\* _worker_metrics when one process both runs main_loop and answers status
\* queries, the case _worker_lock is there for.  Three threads: the
\* scheduler inside update_metrics, a query inside get_worker_health, and a
\* query inside get_worker_metrics_endpoint.  Here metrics carries, next to
\* the counters, the fields get_worker_health reads and one of the deques;
\* a thread switch can fall between any two statements.

\* datetime.min with tzinfo, 0001-01-01: further back than any clock
\* reading minus any interval (about -6.2e10 seconds from the epoch).
datetime_min == -(2^30)

\* The fields of WorkerMetrics in declaration order, the order in which
\* dataclasses.asdict visits them.
FieldOrder ==
    <<"total_processed_windows", "total_errors", "last_pcap_processed",
      "last_csv_processed", "last_window_processed", "llm_summaries_failed",
      "ntlflowlyzer_errors", "database_errors", "processing_times_window">>

\* A worker that has just started.
FreshMetrics ==
    NoErrors @@ [total_processed_windows |-> 0,
                 last_pcap_processed |-> None,
                 last_csv_processed |-> None,
                 last_window_processed |-> None,
                 processing_times_window |-> <<>>]

\* total_errors and total_processed_windows of a worker that has run for
\* a while, around the error-rate boundary; csv_processed is never sent.
ApiCounts == {<<10, 0>>, <<10, 1>>, <<11, 109>>, <<11, 110>>}

ApiMetrics ==
    { [NoErrors EXCEPT !.total_errors = c[1]]
        @@ [total_processed_windows |-> c[2],
            last_pcap_processed |-> p,
            last_csv_processed |-> None,
            last_window_processed |-> l,
            processing_times_window |-> <<>>] :
        c \in ApiCounts, p \in {None, 1}, l \in {None, 0, 1} }

\* The assignments update_metrics makes under the lock, in order; the lock
\* is released when the with block is left.
Statements(func_name, error_type) ==
    CASE func_name = "pcap_processed" -> <<"last_pcap_processed", "release">>
      [] func_name = "window_processed" ->
            <<"total_processed_windows", "last_window_processed",
              "processing_times_window", "release">>
      [] func_name = "error" ->
            <<"total_errors">>
            \o (IF error_type \in {"ntlflowlyzer", "database"}
                THEN <<error_type>> ELSE <<>>)
            \o <<"release">>

Execute(m, stmt, at) ==
    CASE stmt = "last_pcap_processed" -> [m EXCEPT !.last_pcap_processed = at]
      [] stmt = "total_processed_windows" -> [m EXCEPT !.total_processed_windows = @ + 1]
      [] stmt = "last_window_processed" -> [m EXCEPT !.last_window_processed = at]
      [] stmt = "processing_times_window" ->
            [m EXCEPT !.processing_times_window = Append(@, 1)]
      [] stmt = "total_errors" -> [m EXCEPT !.total_errors = @ + 1]
      [] stmt = "ntlflowlyzer" -> [m EXCEPT !.ntlflowlyzer_errors = @ + 1]
      [] stmt = "database" -> [m EXCEPT !.database_errors = @ + 1]
      [] OTHER -> m

ApiFrame ==
    UNCHANGED <<pcaps, csvs, store, alerts, pending, session_ok, model_loaded,
                ml_enabled, max_windows, pc, todo, cur, retry_count, outcomes,
                sleeps, result, aggregated, failed, handled, pruned, tick0,
                public_config, llm_enabled, llm_reply,
                config_file, max_windows_keep>>

\* "with _worker_lock:" of update_metrics is entered.
UpdateMetrics(func_name, error_type) ==
    /\ threads.scheduler.stmts = <<>>
    /\ _worker_lock = "free"
    /\ threads.scheduler.calls < MaxUpdates
    /\ func_name # "error" => error_type = "unknown"
    /\ _worker_lock' = "scheduler"
    /\ threads' = [threads EXCEPT
                     !.scheduler = [stmts |-> Statements(func_name, error_type),
                                    calls |-> @.calls + 1]]
    /\ UNCHANGED <<metrics, now>>
    /\ ApiFrame

\* The next statement of update_metrics.  Leaving the with block releases
\* the lock: the counters are then as one whole call left them.
UpdateStep ==
    /\ threads.scheduler.stmts # <<>>
    /\ LET stmt == Head(threads.scheduler.stmts)
       IN  /\ metrics' = Execute(metrics, stmt, now)
           /\ _worker_lock' = IF stmt = "release" THEN "free" ELSE _worker_lock
           /\ threads' =
                [threads EXCEPT
                   !.scheduler.stmts = Tail(@),
                   !.metrics.seen =
                       IF stmt = "release" /\ threads.metrics.pc \in {"to_dict", "deepcopy"}
                       THEN @ \cup {metrics} ELSE @]
    /\ UNCHANGED now
    /\ ApiFrame

Max3(a, b, c) ==
    IF a >= b /\ a >= c THEN a ELSE IF b >= c THEN b ELSE c

OrMin(t) == IF t = None THEN datetime_min ELSE t

\* The staleness test with the boundary counted as stale.
StaleInclusive(time_since_activity) ==
    time_since_activity >= LOOP_INTERVAL_SECONDS * 3

\* "if time_since_activity > LOOP_INTERVAL_SECONDS * 3"
Stale(time_since_activity) ==
    time_since_activity > LOOP_INTERVAL_SECONDS * 3

\* "error_rate = total_errors / total_processed_windows; error_rate > 0.1":
\* the quotient of two counters of this size is the double nearest to the
\* exact ratio, and it exceeds the double 0.1 exactly when the ratio
\* exceeds one tenth.
AboveTenth(errors, windows) == 10 * errors > windows

\* get_worker_health, computed from the metrics and the clock reading.
get_worker_health(m, at) ==
    LET last_activity == Max3(OrMin(m.last_pcap_processed),
                              OrMin(m.last_csv_processed),
                              OrMin(m.last_window_processed))
        time_since_activity == at - last_activity
    IN  IF Stale(time_since_activity) THEN "degraded"
        ELSE IF m.total_errors > 10 /\ m.total_processed_windows > 0
             THEN IF AboveTenth(m.total_errors, m.total_processed_windows)
                  THEN "degraded" ELSE "healthy"
             ELSE "healthy"

\* "with _worker_lock:" of get_worker_health is entered.
HealthAcquire ==
    /\ threads.health.pc \in {"idle", "returned"}
    /\ _worker_lock = "free"
    /\ _worker_lock' = "health"
    /\ threads' = [threads EXCEPT !.health = [pc |-> "locked", status |-> "none"]]
    /\ UNCHANGED <<metrics, now>>
    /\ ApiFrame

\* The body of get_worker_health, to_dict included, and the release.
HealthReturn ==
    /\ threads.health.pc = "locked"
    /\ _worker_lock' = "free"
    /\ threads' = [threads EXCEPT
                     !.health = [pc |-> "returned",
                                 status |-> get_worker_health(metrics, now)]]
    /\ UNCHANGED <<metrics, now>>
    /\ ApiFrame

\* get_worker_metrics: the lock is taken, the object itself is returned
\* and the lock released; the endpoint then calls to_dict on the object.
GetWorkerMetrics ==
    /\ threads.metrics.pc = "idle"
    /\ _worker_lock = "free"
    /\ threads' = [threads EXCEPT
                     !.metrics = [pc |-> "to_dict", fields |-> FieldOrder,
                                  seen |-> {metrics}, data |-> <<>>,
                                  iter |-> <<>>]]
    /\ UNCHANGED <<metrics, now, _worker_lock>>
    /\ ApiFrame

\* asdict reads the next field of the object; for the deque it starts
\* copy.deepcopy, which iterates the deque.
ToDictStep ==
    /\ threads.metrics.pc = "to_dict"
    /\ threads.metrics.fields # <<>>
    /\ LET f == Head(threads.metrics.fields)
       IN  threads' =
             IF f = "processing_times_window"
             THEN [threads EXCEPT !.metrics.pc = "deepcopy",
                                  !.metrics.iter = metrics.processing_times_window]
             ELSE [threads EXCEPT
                     !.metrics.fields = Tail(@),
                     !.metrics.data = (f :> metrics[f]) @@ @]
    /\ UNCHANGED <<metrics, now, _worker_lock>>
    /\ ApiFrame

\* The iteration of the deque ends.  If the deque was appended to in the
\* meantime the iterator either raises "deque mutated during iteration"
\* or has already delivered its last element.
DeepcopyEnd(raises) ==
    /\ threads.metrics.pc = "deepcopy"
    /\ raises => metrics.processing_times_window # threads.metrics.iter
    /\ threads' =
         IF raises
         THEN [threads EXCEPT !.metrics.pc = "raised"]
         ELSE [threads EXCEPT
                 !.metrics.pc = "returned",
                 !.metrics.fields = <<>>,
                 !.metrics.data =
                     ("processing_times_window" :> threads.metrics.iter) @@ @]
    /\ UNCHANGED <<metrics, now, _worker_lock>>
    /\ ApiFrame

\* A second passes.
Advance ==
    /\ now < MaxApiClock
    /\ now' = now + 1
    /\ UNCHANGED <<metrics, _worker_lock, threads>>
    /\ ApiFrame

InitThreads(M, at) ==
    /\ pcaps = <<>>
    /\ csvs = <<>>
    /\ store = <<>>
    /\ alerts = <<>>
    /\ pending = <<>>
    /\ session_ok = TRUE
    /\ model_loaded = TRUE
    /\ ml_enabled = TRUE
    /\ max_windows = 1
    /\ pc = "sleep"
    /\ todo = <<>>
    /\ cur = 0
    /\ retry_count = 0
    /\ outcomes = <<>>
    /\ sleeps = 0
    /\ result = FALSE
    /\ aggregated = {}
    /\ failed = {}
    /\ handled = {}
    /\ pruned = {}
    /\ tick0 = NoTick
    /\ public_config = DefaultAlertsConfig
    /\ metrics \in M
    /\ llm_enabled = TRUE
    /\ llm_reply = "not_called"
    /\ now = at
    /\ _worker_lock = "free"
    /\ threads = IdleThreads
    /\ config_file = max_windows
    /\ max_windows_keep = max_windows

InitApi == InitThreads({FreshMetrics}, 0)

InitHealth ==
    InitThreads({m \in ApiMetrics :
                   (m.total_processed_windows = 0) = (m.last_window_processed = None)},
                LOOP_INTERVAL_SECONDS * 3)

NextApi ==
    \/ \E func_name \in {"pcap_processed", "window_processed", "error"},
          error_type \in {"ntlflowlyzer", "database", "unknown"} :
          UpdateMetrics(func_name, error_type)
    \/ UpdateStep
    \/ HealthAcquire
    \/ HealthReturn
    \/ GetWorkerMetrics
    \/ ToDictStep
    \/ \E raises \in BOOLEAN : DeepcopyEnd(raises)

SpecApi == InitApi /\ [][NextApi]_vars

NextHealth ==
    \/ \E func_name \in {"pcap_processed", "window_processed", "error"},
          error_type \in {"ntlflowlyzer", "database", "unknown"} :
          UpdateMetrics(func_name, error_type)
    \/ UpdateStep
    \/ HealthAcquire
    \/ HealthReturn
    \/ Advance

SpecHealth == InitHealth /\ [][NextHealth]_vars

TypeOK ==
    /\ pc \in {"sleep", "pcaps", "extract", "pcap_result", "csvs", "alerts", "crashed",
              "save"}
    /\ now \in 0..MaxClock
    /\ metrics.total_errors \in 0..MaxErrors
    /\ metrics.llm_summaries_failed \in 0..MaxLlmFailed
    /\ llm_enabled \in BOOLEAN
    /\ llm_reply \in LlmReplies \cup {"not_called"}
    /\ metrics.ntlflowlyzer_errors + metrics.database_errors <= metrics.total_errors
    /\ DOMAIN pcaps \subseteq Ids
    /\ DOMAIN csvs \subseteq DOMAIN pcaps
    /\ DOMAIN store \subseteq DOMAIN csvs
    /\ retry_count \in 0..MAX_RETRIES

\* ================================================================== claims
Min(a, b) == IF a <= b THEN a ELSE b

\* C1: every persisted Window has benign_flows + attack_flows +
\* unknown_flows equal to total_flows, whether the rows were classified or
\* all counted benign.
C1_CountsAddUp ==
    \A id \in DOMAIN store :
        store[id].benign_flows + store[id].attack_flows + store[id].unknown_flows
            = store[id].total_flows

C1_Witness ==
    /\ \E id \in DOMAIN store : store[id].attack_flows > 0
    /\ \E id \in DOMAIN store : store[id].unknown_flows > 0

\* C2: no Window with total_flows = 0 is in the store, and a readable
\* feature file without rows has no Window.
C2_NoEmptyWindow ==
    /\ \A id \in DOMAIN store : store[id].total_flows # 0
    /\ \A id \in DOMAIN csvs :
          (csvs[id].readable /\ csvs[id].rows = <<>>) => id \notin DOMAIN store

C2_Witness ==
    \E id \in handled : csvs[id].readable /\ csvs[id].rows = <<>> /\ pc = "sleep"

\* C3 (as claimed): a tick that starts with every segment converted and
\* every feature file handled by an earlier tick, and in which no external
\* call fails, ends with the windows and the alerts it started with.
C3_TickIdempotent ==
    [][(pc = "csvs" /\ pc' = "sleep" /\ tick0.clean /\ ~tick0.fault)
          => (store' = tick0.store /\ alerts' = tick0.alerts)]_vars

\* C4: the loop body for an identifier that already has a Window does not
\* aggregate the file, leaves the windows and the alerts as they are, and
\* never reaches alert evaluation for that identifier in the tick.
C4_ExistingSkipped ==
    [][/\ (pc = "csvs" /\ session_ok /\ todo # <<>> /\ Head(todo) \in DOMAIN store)
            => /\ store' = store
               /\ alerts' = alerts
               /\ pending' = pending
               /\ aggregated' = aggregated
               /\ pc' = "csvs"
               /\ todo' = Tail(todo)
       /\ pc' = "alerts" => cur' \notin DOMAIN tick0'.store]_vars

C4_Witness ==
    /\ pc = "csvs"
    /\ \E id \in DOMAIN tick0.store :
          /\ id \in DOMAIN store
          /\ id \in DOMAIN csvs
          /\ id \notin aggregated
          /\ \A i \in 1..Len(todo) : todo[i] # id

\* C5 (as claimed): an identifier the prune step has deleted has no Window
\* again.
C5_PrunedStaysGone == \A id \in pruned : id \notin DOMAIN store

\* C6: the prune step leaves min(n, keep_n) Windows, the ones with the
\* greatest start times, each as it was.
C6_PruneKeepsNewest ==
    [][(pc = "csvs" /\ session_ok /\ todo = <<>>)
          => /\ Cardinality(DOMAIN store')
                    = Min(Cardinality(DOMAIN store), max_windows)
             /\ DOMAIN store' \subseteq DOMAIN store
             /\ \A i \in DOMAIN store' : store'[i] = store[i]
             /\ \A i \in DOMAIN store', j \in DOMAIN store \ DOMAIN store' :
                    store[i].start_time > store[j].start_time]_vars

C6_Witness ==
    /\ pc = "sleep"
    /\ pruned # {}
    /\ Cardinality(DOMAIN store) = max_windows
    /\ \A i \in DOMAIN store : i \notin pruned

AllNonZero == \A i \in 1..Len(outcomes) : outcomes[i] = "nonzero"

\* C7: when every attempt exits non-zero, the extraction returns failure
\* after 1 + MAX_RETRIES invocations, having slept once before each retry.
C7_RetriesExactly ==
    /\ (pc = "pcap_result" /\ AllNonZero)
          => /\ Len(outcomes) = 1 + MAX_RETRIES
             /\ sleeps = MAX_RETRIES
             /\ result = FALSE
    /\ (pc = "extract" /\ AllNonZero)
          => /\ Len(outcomes) <= MAX_RETRIES
             /\ sleeps = Len(outcomes)

C7_Witness ==
    pc = "pcap_result" /\ AllNonZero /\ Len(outcomes) = 1 + MAX_RETRIES

\* C8 (as claimed): an attempt that times out while retry budget remains
\* uses one unit of it and the extraction is tried again.
C8_TimeoutRetried ==
    [][(pc = "extract" /\ outcomes' = Append(outcomes, "timeout")
            /\ retry_count < MAX_RETRIES)
          => (pc' = "extract" /\ retry_count' = retry_count + 1)]_vars

C10_WindowSurvivesAlertFailure ==
    [][pc = "alerts"
          => /\ cur \in DOMAIN store'
             /\ store' = store
             /\ pc' = "csvs"]_vars

C10_Witness ==
    /\ pc = "csvs"
    /\ \E id \in DOMAIN store \ DOMAIN tick0.store :
          /\ id \in handled
          /\ \/ ~session_ok
             \/ pending # <<>> /\ pending[Len(pending)].window_id = id

\* C11 (as claimed): whatever happened in a tick, main_loop goes to sleep
\* after it, from where the next tick starts.
C11_LoopSurvivesTick ==
    [][(pc = "csvs" /\ pc' \notin {"csvs", "alerts"}) => pc' = "sleep"]_vars

\* ---- alert evaluation steps, read under SpecEval
\* The step is an evaluation that returned (one that raises marks the fault).
Returned == pc = "alerts" /\ ~tick0'.fault

\* The list the evaluation of the step returned: what the alerts table
\* gained beyond the alerts the session already held.
Yielded ==
    IF Len(alerts') > Len(alerts)
    THEN SubSeq(alerts', Len(alerts) + Len(pending) + 1, Len(alerts'))
    ELSE <<>>

OfType(list, type) == SelectSeq(list, LAMBDA a : a.alert_type = type)
OfRule(list, rule) == SelectSeq(list, LAMBDA a : a.rule = rule)

\* attack_flows / total_flows of the evaluated window is exactly p percent.
AttackShare(p) ==
    /\ store[cur].total_flows > 0
    /\ store[cur].attack_flows * 100 = p * store[cur].total_flows

AlertsOnAtDefaultAttackThreshold ==
    /\ public_config.enable_public_alerts
    /\ public_config.alert_threshold_attack_percent = alert_threshold_attack_percent

\* C12 (as claimed): with the attack threshold at 10%, a window at 49%
\* yields exactly one alert of type elevated and none of type critical, and
\* a window at exactly 50% yields a critical alert and none of type elevated.
C12_OneElevatedAt49 ==
    [][(Returned /\ AlertsOnAtDefaultAttackThreshold)
          => /\ AttackShare(49)
                  => /\ Len(OfType(Yielded, "elevated")) = 1
                     /\ Len(OfType(Yielded, "critical")) = 0
             /\ AttackShare(50)
                  => /\ Len(OfType(Yielded, "critical")) >= 1
                     /\ Len(OfType(Yielded, "elevated")) = 0]_vars

\* C12 (amended): with the attack threshold at 10%, a window at 49% yields
\* exactly one attack-rate alert, of type elevated, and no critical alert; a
\* window at exactly 50% yields exactly one attack-rate alert, of type
\* critical.  The unknown-rate and per-label rules may add elevated alerts.
C12_AttackRateAt49And50 ==
    [][(Returned /\ AlertsOnAtDefaultAttackThreshold)
          => /\ AttackShare(49)
                  => /\ OfRule(Yielded, "attack_rate")
                            = <<Alert(store[cur], "elevated", "medium", "attack_rate")>>
                     /\ OfType(Yielded, "critical") = <<>>
             /\ AttackShare(50)
                  => /\ OfRule(Yielded, "attack_rate")
                            = <<Alert(store[cur], "critical", "high", "attack_rate")>>
                     /\ Len(OfType(Yielded, "critical")) = 1]_vars

C12_Witness ==
    /\ pc = "csvs" /\ ~tick0.fault /\ handled = {1}
    /\ public_config.enable_public_alerts
    /\ public_config.alert_threshold_attack_percent = alert_threshold_attack_percent
    /\ store[1].attack_flows = 49 /\ store[1].total_flows = 100
    /\ Len(OfType(alerts, "elevated")) >= 2
    /\ Len(OfRule(alerts, "attack_rate")) = 1

\* C13 (as claimed): a ratio >= 50% yields the critical/high attack-rate
\* alert only, a ratio >= the configured threshold and < 50% the
\* elevated/medium attack-rate alert only, a ratio below both bounds neither.
C13_AttackRulesExclusive ==
    [][(Returned /\ public_config.enable_public_alerts /\ store[cur].total_flows > 0)
          => LET w == store[cur]
                 ratio100 == w.attack_flows * 100
                 bound == public_config.alert_threshold_attack_percent
                 rate == OfRule(Yielded, "attack_rate")
             IN  /\ ratio100 >= CRITICAL_ATTACK_PERCENT * w.total_flows
                      => rate = <<Alert(w, "critical", "high", "attack_rate")>>
                 /\ (ratio100 >= bound * w.total_flows
                        /\ ratio100 < CRITICAL_ATTACK_PERCENT * w.total_flows)
                      => rate = <<Alert(w, "elevated", "medium", "attack_rate")>>
                 /\ (ratio100 < bound * w.total_flows
                        /\ ratio100 < CRITICAL_ATTACK_PERCENT * w.total_flows)
                      => rate = <<>>]_vars

\* C14 (as claimed): one evaluation yields the unknown-rate alert iff
\* unknown_flows / total_flows >= the configured unknown threshold, the
\* volume alert iff total_flows >= the configured flow count, one
\* elevated/medium alert for each histogram label counted >= 10 and none
\* for the other labels, and besides the attack-rate alert nothing else.
C14_OtherRulesIff ==
    [][(Returned /\ public_config.enable_public_alerts /\ store[cur].total_flows > 0)
          => LET w == store[cur]
             IN  /\ OfRule(Yielded, "unknown_rate")
                        = IF w.unknown_flows * 100
                                >= public_config.alert_threshold_unknown_percent * w.total_flows
                          THEN <<Alert(w, "elevated", "medium", "unknown_rate")>>
                          ELSE <<>>
                 /\ OfRule(Yielded, "volume")
                        = IF w.total_flows >= public_config.alert_threshold_flow_count
                          THEN <<Alert(w, "info", "low", "volume")>>
                          ELSE <<>>
                 /\ \A l \in DOMAIN w.attacks_per_label :
                        OfRule(Yielded, l)
                            = IF w.attacks_per_label[l] >= LABEL_ALERT_COUNT
                              THEN <<Alert(w, "elevated", "medium", l)>>
                              ELSE <<>>
                 /\ \A i \in 1..Len(Yielded) :
                        Yielded[i].rule \in {"attack_rate", "unknown_rate", "volume"}
                                                \cup DOMAIN w.attacks_per_label]_vars

\* C15: with alert generation switched off, or for a window with
\* total_flows = 0, an evaluation returns nothing and adds no alert to the
\* table or to the session, whatever the window's counters are.
C15_NothingWhenOffOrEmpty ==
    [][(pc = "alerts"
            /\ (~public_config.enable_public_alerts \/ store[cur].total_flows = 0))
          => /\ alerts' = alerts
             /\ pending' = pending
             /\ Yielded = <<>>]_vars

C15_Witness ==
    /\ pc = "csvs" /\ ~tick0.fault /\ handled = {1}
    /\ ~public_config.enable_public_alerts
    /\ store[1].attack_flows = 50 /\ store[1].total_flows = 100
    /\ store[1].unknown_flows = 20
    /\ alerts = <<>>

\* C16 (as claimed): an evaluation leaves the alerts table as it was.
C16_EvaluationPure ==
    [][pc = "alerts" => alerts' = alerts]_vars

\* C16 (amended): the evaluation persists what it creates.  When it returns
\* and a rule fired, the alerts table afterwards is the table before, then
\* the alerts the session still held, then one alert per fired rule, all
\* for the evaluated window; when no rule fired or the evaluation raised,
\* the table is as it was.  The caller writes nothing.
C16_EvaluationCommits ==
    [][pc = "alerts"
          => LET fired == check_and_create_alerts(store[cur], public_config)
             IN  IF ~tick0'.fault /\ fired # <<>>
                 THEN /\ Len(alerts') = Len(alerts) + Len(pending) + Len(fired)
                      /\ SubSeq(alerts', 1, Len(alerts) + Len(pending)) = alerts \o pending
                      /\ \A i \in 1..Len(Yielded) : Yielded[i].window_id = cur
                      /\ pending' = <<>>
                 ELSE alerts' = alerts]_vars

C16_Witness ==
    /\ pc = "csvs" /\ ~tick0.fault /\ handled = {1}
    /\ Len(alerts) >= 3
    /\ alerts[1] = HeldAlert
    /\ \A i \in 2..Len(alerts) : alerts[i].window_id = 1

\* ---- aggregation of one feature file, read under SpecAgg
NumRows(rows, P(_)) == Cardinality({i \in 1..Len(rows) : P(rows[i])})

\* The classifier's highest class probability for the row is below the threshold.
BelowThreshold(r) == r.parses /\ r.prob < ML_THRESHOLD

\* The classification of the row raises.
Raises(r) == ~r.parses

\* C17: with the model in use, every row whose highest class probability
\* is below the threshold, whichever class that is, counts once in
\* unknown_flows and once under "Unknown" in the histogram (as do the rows
\* whose classification raises), and in no attack label and not in
\* benign_flows or attack_flows.
C17_LowProbabilityUnknown ==
    (pc = "alerts" /\ model_loaded /\ ml_enabled)
        => LET rows == csvs[cur].rows
               w == store[cur]
               hist == w.attacks_per_label
               unknown == NumRows(rows, BelowThreshold) + NumRows(rows, Raises)
           IN  /\ w.unknown_flows = unknown
               /\ w.benign_flows + w.attack_flows = Len(rows) - unknown
               /\ IF unknown > 0
                  THEN "Unknown" \in DOMAIN hist /\ hist["Unknown"] = unknown
                  ELSE "Unknown" \notin DOMAIN hist
               /\ \A l \in DOMAIN hist \ {"Unknown"} :
                      hist[l] = NumRows(rows, LAMBDA r : /\ r.parses
                                                         /\ r.prob >= ML_THRESHOLD
                                                         /\ r.raw = l)

C17_Witness ==
    /\ pc = "alerts" /\ model_loaded /\ ml_enabled
    /\ \E i, j, k \in 1..Len(csvs[cur].rows) :
          /\ csvs[cur].rows[i] = [raw |-> "DDoS", prob |-> 89, parses |-> TRUE]
          /\ csvs[cur].rows[j] = [raw |-> "normal", prob |-> 50, parses |-> TRUE]
          /\ csvs[cur].rows[k] = [raw |-> "DDoS", prob |-> 90, parses |-> TRUE]
    /\ store[cur].unknown_flows = 2
    /\ store[cur].attack_flows = 1

\* C18 (as claimed): when the classification of a row raises, the window
\* is still saved with every row counted, that row among unknown_flows, and
\* an error counter has gone up.
C18_RowErrorCounted ==
    [][(/\ pc = "csvs" /\ todo # <<>> /\ model_loaded /\ ml_enabled
        /\ csvs[Head(todo)].readable
        /\ NumRows(csvs[Head(todo)].rows, Raises) > 0
        /\ pc' = "alerts")
          => /\ store'[Head(todo)].total_flows = Len(csvs[Head(todo)].rows)
             /\ store'[Head(todo)].unknown_flows >= NumRows(csvs[Head(todo)].rows, Raises)
             /\ metrics'.total_errors > metrics.total_errors]_vars

\* C19: with the model in use and every row classified Benign with
\* probability 1.0, the saved Window has total_flows = benign_flows = N,
\* no attack and no unknown flows and an empty histogram.
C19_AllBenign ==
    (/\ pc = "alerts" /\ model_loaded /\ ml_enabled
     /\ \A i \in 1..Len(csvs[cur].rows) :
            /\ csvs[cur].rows[i].raw \in {"Benign", "BENIGN"}
            /\ csvs[cur].rows[i].prob = 100
            /\ csvs[cur].rows[i].parses)
        => /\ Len(csvs[cur].rows) > 0
           /\ store[cur].total_flows = Len(csvs[cur].rows)
           /\ store[cur].benign_flows = Len(csvs[cur].rows)
           /\ store[cur].attack_flows = 0
           /\ store[cur].unknown_flows = 0
           /\ store[cur].attacks_per_label = EmptyHist

C19_Witness ==
    /\ pc = "alerts" /\ model_loaded /\ ml_enabled
    /\ Len(csvs[cur].rows) >= 2
    /\ \A i \in 1..Len(csvs[cur].rows) :
          csvs[cur].rows[i].raw \in {"Benign", "BENIGN"} /\ csvs[cur].rows[i].prob = 100
    /\ \E i \in 1..Len(csvs[cur].rows) : csvs[cur].rows[i].raw = "BENIGN"
    /\ store[cur].benign_flows = Len(csvs[cur].rows)

\* C20: without a loaded model, or with classification switched off, the
\* loop body for a file with rows saves a Window with every row counted
\* benign and an empty histogram and counts no error; only a failed
\* database write, which is counted as such, keeps the Window out.
C20_DegradedAllBenign ==
    [][(/\ pc = "csvs" /\ todo # <<>> /\ ~(model_loaded /\ ml_enabled)
        /\ csvs[Head(todo)].readable
        /\ csvs[Head(todo)].rows # <<>>)
          => \/ /\ pc' = "alerts"
                /\ Head(todo) \in DOMAIN store'
                /\ store'[Head(todo)].total_flows = Len(csvs[Head(todo)].rows)
                /\ store'[Head(todo)].benign_flows = Len(csvs[Head(todo)].rows)
                /\ store'[Head(todo)].attack_flows = 0
                /\ store'[Head(todo)].unknown_flows = 0
                /\ store'[Head(todo)].attacks_per_label = EmptyHist
                /\ metrics'.total_errors = metrics.total_errors
             \/ /\ metrics'.database_errors = metrics.database_errors + 1
                /\ store' = store]_vars

C20_Witness ==
    /\ pc = "alerts" /\ ~model_loaded /\ ml_enabled
    /\ \E i, j \in 1..Len(csvs[cur].rows) :
          /\ csvs[cur].rows[i] = [raw |-> "DDoS", prob |-> 95, parses |-> TRUE]
          /\ ~csvs[cur].rows[j].parses
    /\ store[cur].benign_flows = Len(csvs[cur].rows)
    /\ metrics = NoErrors

\* The counters a saved window holds, as the aggregate they were taken from.
MetricsOf(w) ==
    [flows_count |-> w.total_flows, benign_flows |-> w.benign_flows,
     attack_flows |-> w.attack_flows, unknown_flows |-> w.unknown_flows,
     attacks_per_label |-> w.attacks_per_label,
     total_packets |-> w.total_packets,
     total_payload_bytes |-> w.total_payload_bytes,
     feature_stats |-> w.feature_stats]

\* C21: with the provider switched on, whenever the text-generation call
\* returns nothing or raises (timeout, transport error, unknown or
\* unconfigured provider, empty or malformed body), llm_summaries_failed
\* grows by exactly one, and the window that is saved holds as its summary
\* the rule-based text built from its own counters.
C21_FailedEnrichment ==
    [][(/\ pc = "csvs" /\ llm_enabled
        /\ llm_reply' \in LlmReplies \ {"text"}
        /\ (pc' = "alerts" \/ metrics'.database_errors = metrics.database_errors + 1))
          => /\ metrics'.llm_summaries_failed = metrics.llm_summaries_failed + 1
             /\ pc' = "alerts"
                   => /\ Head(todo) \in DOMAIN store'
                      /\ store'[Head(todo)].llm_summary
                            = build_rule_based_summary(Head(todo),
                                                       MetricsOf(store'[Head(todo)]))]_vars

C21_Witness ==
    /\ pc = "alerts" /\ llm_enabled /\ llm_reply = "empty"
    /\ metrics.llm_summaries_failed = 1
    /\ cur \in DOMAIN store
    /\ store[cur].attack_flows > 0
    /\ store[cur].llm_summary = build_rule_based_summary(cur, MetricsOf(store[cur]))

\* A cell that is present, not empty and accepted as a number.
Observed(row, col) ==
    col \in DOMAIN Cols(row) /\ Cols(row)[col] # "" /\ Parses(Cols(row)[col])

\* The rows that have a value for the feature, and the value: the cell
\* under the first spelling of the column that is observed.
RowsWith(rows, feat) ==
    {i \in 1..Len(rows) :
        \E k \in 1..Len(FEATURE_COLUMN_ALIASES[feat]) :
            Observed(rows[i], FEATURE_COLUMN_ALIASES[feat][k])}

ValueOf(row, feat) ==
    LET aliases == FEATURE_COLUMN_ALIASES[feat]
        first == CHOOSE k \in 1..Len(aliases) :
                    /\ Observed(row, aliases[k])
                    /\ \A j \in 1..(k - 1) : ~Observed(row, aliases[j])
    IN  FloatOf(Cols(row)[aliases[first]])

RECURSIVE TotalOver(_, _, _)
TotalOver(rows, feat, n) ==
    IF n = 0 THEN 0
    ELSE TotalOver(rows, feat, n - 1)
            + (IF n \in RowsWith(rows, feat) THEN ValueOf(rows[n], feat).num ELSE 0)

StatsAsClaimed(rows, w) ==
    /\ w.total_flows = Len(rows)
    /\ w.total_packets = TotalOver(rows, "packets_count", Len(rows))
    /\ w.total_payload_bytes = TotalOver(rows, "total_payload_bytes", Len(rows))
    /\ \A feat \in FEATURES_OF_INTEREST :
          LET with == RowsWith(rows, feat)
              values == {ValueOf(rows[i], feat) : i \in with}
          IN  /\ feat \in DOMAIN w.feature_stats <=> with # {}
              /\ feat \in DOMAIN w.feature_stats
                    => LET e == w.feature_stats[feat]
                       IN  /\ e.min \in values /\ \A v \in values : Leq(e.min, v)
                           /\ e.max \in values /\ \A v \in values : Leq(v, e.max)
                           /\ e.mean.den = Cardinality(with)
                           /\ e.mean.num = TotalOver(rows, feat, Len(rows))
                           /\ Leq(e.min, e.mean) /\ Leq(e.mean, e.max)

\* C23: the window saved for a feature file has a statistics entry for a
\* feature exactly when some row has a present, non-empty, parsable cell
\* under one of the feature's column names (the first such name supplies
\* the value); min, mean and max are those of exactly these values, with
\* min <= mean <= max; rows without a packet or byte value add 0 to the
\* totals and are counted in total_flows.
C23_FeatureStatistics ==
    [][(pc = "csvs" /\ pc' = "alerts")
          => StatsAsClaimed(csvs[Head(todo)].rows, store'[Head(todo)])]_vars

\* A row without its timestamps, and a table without the update timestamps.
Fields(row) == [k \in DOMAIN row \ {"created_at", "updated_at"} |-> row[k]]
SansUpdated(st) == [i \in DOMAIN st |-> [k \in DOMAIN st[i] \ {"updated_at"} |-> st[i][k]]]

\* C24: on every table save_window_to_db has produced, saving any window
\* leaves one row per identifier; where the identifier had a row, that row
\* now holds the window's fields and narrative and the new update
\* timestamp, and the number of rows is the same; where it had none,
\* exactly one row is added; the other rows are untouched; and saving the
\* same window again changes nothing but the update timestamp.
C24_Upsert ==
    pc = "save" =>
        \A w \in UpsertWindows, at \in now..MaxClock :
            LET once == save_window_to_db(store, w, at)
            IN  /\ DOMAIN once = DOMAIN store \cup {w.id}
                /\ \A i \in DOMAIN once : once[i].id = i
                /\ \A i \in DOMAIN store \ {w.id} : once[i] = store[i]
                /\ Fields(once[w.id]) = w
                /\ once[w.id].updated_at = at
                /\ IF w.id \in DOMAIN store
                   THEN /\ Cardinality(DOMAIN once) = Cardinality(DOMAIN store)
                        /\ once[w.id].created_at = store[w.id].created_at
                   ELSE Cardinality(DOMAIN once) = Cardinality(DOMAIN store) + 1
                /\ \A again \in at..MaxClock :
                      SansUpdated(save_window_to_db(once, w, again)) = SansUpdated(once)

C24_Witness ==
    /\ pc = "save"
    /\ \E i \in DOMAIN store : store[i].created_at = 0 /\ store[i].updated_at = MaxClock
    /\ \E i \in DOMAIN store : store[i].created_at > 0

\* C25: in every state of a run, between any two steps of a tick, each
\* identifier either has no row or has a row whose counts, histogram,
\* feature statistics and narrative are those of one aggregation of that
\* identifier's feature file, with classification on or off.
C25_WholeWindows ==
    \A id \in DOMAIN store :
        /\ id \in DOMAIN csvs /\ Summarisable(csvs[id])
        /\ \E enabled \in BOOLEAN :
              LET agg == summarise_features_and_ml(csvs[id], enabled, model_loaded)
                  w == store[id]
              IN  /\ w.id = id
                  /\ MetricsOf(w) = agg
                  /\ w.llm_summary \in {LlmText, build_rule_based_summary(id, agg)}

C25_Witness ==
    /\ pc \in {"csvs", "alerts"} /\ todo # <<>>
    /\ \E id \in DOMAIN store : store[id].attack_flows > 0
    /\ \E id \in DOMAIN csvs \ DOMAIN store : csvs[id].rows # <<>>

\* The loop body is at a feature file that has rows and no window yet.
AtUnsavedFile ==
    /\ pc = "csvs" /\ session_ok /\ todo # <<>>
    /\ Head(todo) \notin DOMAIN store
    /\ Summarisable(csvs[Head(todo)]) /\ csvs[Head(todo)].rows # <<>>

AtMalformedFile ==
    /\ pc = "csvs" /\ session_ok /\ todo # <<>>
    /\ Head(todo) \notin DOMAIN store
    /\ ~Summarisable(csvs[Head(todo)])

\* C27: the step at a feature file that cannot be read or aggregated
\* leaves the windows and alerts tables and the session as they were and
\* goes on with the files after it; no such file ever has a window; the
\* end of a loop in which a file failed still deletes the windows beyond
\* the retention size; and every later loop lists the file and reads it
\* again.
C27_MalformedFile ==
    [][/\ (AtMalformedFile /\ todo' # todo)
          => /\ store' = store /\ alerts' = alerts /\ pending' = pending
             /\ session_ok' /\ pc' = "csvs" /\ todo' = Tail(todo)
             /\ Head(todo) \in aggregated'
       /\ \A id \in DOMAIN csvs' : ~Summarisable(csvs'[id]) => id \notin DOMAIN store'
       /\ (/\ pc = "csvs" /\ session_ok /\ todo = <<>>
           /\ \E id \in aggregated : ~Summarisable(csvs[id]))
          => /\ pc' # "csvs"
             /\ store' = Without(store, WindowsToDelete(store, max_windows))
       /\ (pc = "pcaps" /\ pc' = "csvs")
          => \A id \in DOMAIN csvs' : \E i \in 1..Len(todo') : todo'[i] = id]_vars

\* The file failed in an earlier tick and again in this one, the file after
\* it was saved in this tick, and the loop has reached its end.
C27_Witness ==
    /\ pc = "csvs" /\ session_ok /\ todo = <<>>
    /\ 1 \in DOMAIN csvs /\ ~csvs[1].readable /\ 1 \in aggregated
    /\ metrics.total_errors = 4 /\ metrics.ntlflowlyzer_errors = 0
    /\ metrics.database_errors = 0
    /\ 2 \in aggregated /\ 2 \in DOMAIN store

\* C28: a readable feature file without rows gets no window and no alert,
\* and once the loop body has completed for it, no later tick reads and
\* aggregates it again.
C28_ZeroRowsDone ==
    [][(/\ pc = "csvs" /\ session_ok /\ todo # <<>>
        /\ Summarisable(csvs[Head(todo)]) /\ csvs[Head(todo)].rows = <<>>)
          => /\ Head(todo) \notin DOMAIN store'
             /\ alerts' = alerts /\ pending' = pending
             /\ Head(todo) \in handled => Head(todo) \notin aggregated']_vars

\* C29: the step of the loop body at a feature file that cannot be
\* aggregated, or that has no rows, leaves every error counter as it was.
C29_DataQualityNotAnError ==
    [][(/\ pc = "csvs" /\ session_ok /\ todo # <<>>
        /\ Head(todo) \notin DOMAIN store
        /\ (~Summarisable(csvs[Head(todo)]) \/ csvs[Head(todo)].rows = <<>>))
          => /\ metrics'.total_errors = metrics.total_errors
             /\ metrics'.ntlflowlyzer_errors = metrics.ntlflowlyzer_errors
             /\ metrics'.database_errors = metrics.database_errors]_vars

\* C30: when the scan comes to a segment younger than the minimum age it
\* moves on without touching the segment, the feature files or the
\* counters; the extraction tool only ever runs on a segment that is old
\* enough; every tick scans every segment, and a segment that is old
\* enough and has no feature file is extracted when its turn comes.
C30_FreshSegmentLeftAlone ==
    [][/\ (pc = "pcaps" /\ todo # <<>> /\ pcaps[Head(todo)] = "fresh")
          => /\ pc' = "pcaps" /\ todo' = Tail(todo)
             /\ pcaps' = pcaps /\ csvs' = csvs
             /\ outcomes' = outcomes /\ metrics' = metrics /\ failed' = failed
       /\ pc' \in {"extract", "pcap_result"} => pcaps'[cur'] = "old"
       /\ (pc = "sleep" /\ pc' = "pcaps")
          => \A id \in DOMAIN pcaps' : \E i \in 1..Len(todo') : todo'[i] = id
       /\ (/\ pc = "pcaps" /\ todo # <<>> /\ pcaps[Head(todo)] = "old"
           /\ Head(todo) \notin DOMAIN csvs)
          => pc' = "extract" /\ cur' = Head(todo)]_vars

\* The scan has passed a segment that is too fresh; the older segment has
\* its feature file.
C30_Witness ==
    /\ pc = "pcaps" /\ todo = <<>>
    /\ DOMAIN pcaps = {1, 2} /\ pcaps[2] = "fresh"
    /\ 2 \notin DOMAIN csvs
    /\ 1 \in DOMAIN csvs /\ 1 \notin DOMAIN store

\* C31 (as claimed): whenever a tick has ended, whether or not one of its
\* windows failed, the store holds at most max_windows Windows.
C31_PrunedAtEndOfTick ==
    pc \in {"sleep", "crashed"} => Cardinality(DOMAIN store) <= max_windows

RECURSIVE Completed(_, _)
Completed(m, stmts) ==
    IF stmts = <<>> THEN m ELSE Completed(Execute(m, Head(stmts), now), Tail(stmts))

\* C32 (as claimed): a status query never reads the metrics in the middle
\* of an update.  get_worker_health runs only while no update_metrics call
\* is under way; the copy of a deque made by to_dict is never under way
\* while the deque is appended to, and never fails; and the dictionary the
\* metrics endpoint returns is the metrics as they were at one moment
\* between two updates (the update under way at the return counted as
\* done).
C32_ConsistentSnapshot ==
    /\ threads.health.pc = "locked" => threads.scheduler.stmts = <<>>
    /\ threads.metrics.pc = "deepcopy"
          => metrics.processing_times_window = threads.metrics.iter
    /\ threads.metrics.pc # "raised"
    /\ threads.metrics.pc = "returned"
          => threads.metrics.data \in
                 threads.metrics.seen \cup {Completed(metrics, threads.scheduler.stmts)}

\* C33: no step removes an alert, and a step changes at most one existing
\* alert.  A step that changes one is no pipeline step (windows, session and
\* loop position stay as they are, no alert is added) and does nothing but
\* set acknowledged with acknowledged_at, or resolved with resolved_at, on
\* that alert.  The step that prunes a window leaves the alerts that
\* reference it in the table as they were.
C33_AlertsOnlyReviewedByOperator ==
    [][LET changed == {i \in 1..Len(alerts) :
                          i > Len(alerts') \/ alerts'[i] # alerts[i]}
       IN  /\ Len(alerts') >= Len(alerts)
           /\ Cardinality(changed) <= 1
           /\ \A i \in changed :
                 /\ <<store, pending, session_ok, pc, todo, cur, pruned>>'
                       = <<store, pending, session_ok, pc, todo, cur, pruned>>
                 /\ Len(alerts') = Len(alerts)
                 /\ \/ alerts'[i] = [alerts[i] EXCEPT !.acknowledged = TRUE,
                                                       !.acknowledged_at = now]
                    \/ alerts'[i] = [alerts[i] EXCEPT !.resolved = TRUE,
                                                       !.resolved_at = now]
           /\ \A i \in 1..Len(alerts) :
                 alerts[i].window_id \in pruned' \ pruned
                    => i <= Len(alerts') /\ alerts'[i] = alerts[i]]_vars

\* Window 1 has been pruned; its alert, acknowledged and resolved by the
\* operator before, is still there, next to an alert of window 2.
C33_Witness ==
    /\ pc = "sleep"
    /\ 1 \in pruned /\ 1 \notin DOMAIN store
    /\ \E i \in 1..Len(alerts) :
          /\ alerts[i].window_id = 1
          /\ alerts[i].acknowledged /\ alerts[i].resolved
          /\ alerts[i].acknowledged_at = 0 /\ alerts[i].resolved_at = 0
    /\ \E i \in 1..Len(alerts) : alerts[i].window_id = 2

\* C34 (as claimed): table alerts never holds two alerts of the same rule
\* for the same window identifier.
C34_OncePerWindow ==
    \A i, j \in 1..Len(alerts) :
        (/\ i < j
         /\ alerts[i].window_id = alerts[j].window_id
         /\ alerts[i].rule = alerts[j].rule) => FALSE

RECURSIVE HistSum(_, _)
HistSum(hist, labels) ==
    IF labels = {} THEN 0
    ELSE LET l == CHOOSE x \in labels : TRUE
         IN  hist[l] + HistSum(hist, labels \ {l})

\* C35: in every stored window the histogram has the entry "Unknown"
\* exactly when unknown_flows > 0, and then with that count; its other
\* entries add up to attack_flows; it has no entry for Benign.
C35_HistogramMatchesCounters ==
    \A id \in DOMAIN store :
        LET w == store[id]
            hist == w.attacks_per_label
        IN  /\ ("Unknown" \in DOMAIN hist) = (w.unknown_flows > 0)
            /\ "Unknown" \in DOMAIN hist => hist["Unknown"] = w.unknown_flows
            /\ HistSum(hist, DOMAIN hist \ {"Unknown"}) = w.attack_flows
            /\ "Benign" \notin DOMAIN hist

\* A stored window with an unknown flow and attack flows of two labels.
C35_Witness ==
    /\ 1 \in DOMAIN store
    /\ store[1].unknown_flows = 1
    /\ store[1].attack_flows = 2
    /\ DOMAIN store[1].attacks_per_label = {"Unknown", "DDoS", "PortScan"}

GoodFile(id) ==
    id \in DOMAIN csvs /\ Summarisable(csvs[id]) /\ csvs[id].rows # <<>>

C37_TickUsesReloadedRetention ==
    [][(pc = "csvs" /\ session_ok /\ todo = <<>> /\ pc' # "csvs")
          => Cardinality(DOMAIN store')
                = Min(Cardinality(DOMAIN store), max_windows_keep)]_vars

\* C38 (as claimed): no counter ever decreases and total_errors is at
\* least ntlflowlyzer_errors + database_errors; the step in which an
\* extraction ends in failure adds exactly one to total_errors and to
\* ntlflowlyzer_errors, the step in which a feature file fails to aggregate
\* adds exactly one to total_errors, and the step in which a store write
\* fails adds exactly one to total_errors and to database_errors.
C38_CountedOnce ==
    [][/\ metrics'.total_errors >= metrics.total_errors
       /\ metrics'.ntlflowlyzer_errors >= metrics.ntlflowlyzer_errors
       /\ metrics'.database_errors >= metrics.database_errors
       /\ metrics'.total_errors
             >= metrics'.ntlflowlyzer_errors + metrics'.database_errors
       /\ (pc = "extract" /\ pc' = "pcap_result" /\ ~result')
             => /\ metrics'.total_errors = metrics.total_errors + 1
                /\ metrics'.ntlflowlyzer_errors = metrics.ntlflowlyzer_errors + 1
       /\ (AtMalformedFile /\ todo' # todo)
             => metrics'.total_errors = metrics.total_errors + 1
       /\ (AtUnsavedFile /\ todo' # todo /\ Head(todo) \in aggregated')
             => /\ metrics'.total_errors = metrics.total_errors + 1
                /\ metrics'.database_errors = metrics.database_errors + 1]_vars

\* The processing timestamps that are set.
Stamps(m) ==
    {m.last_pcap_processed, m.last_csv_processed, m.last_window_processed}
       \ {None}

\* C39: the status get_worker_health returns is "degraded" when every
\* processing timestamp that is set is more than 3 loop intervals before
\* the clock reading (so also when none is set), or, failing that, when
\* total_errors > 10, at least one window was processed and total_errors
\* is more than a tenth of total_processed_windows; it is "healthy" in
\* every other case.
C39_HealthStatus ==
    [][(threads.health.pc = "locked" /\ threads'.health.pc = "returned")
          => LET inactive ==
                     \A t \in Stamps(metrics) : now - t > 3 * LOOP_INTERVAL_SECONDS
                 failing ==
                     /\ metrics.total_errors > 10
                     /\ metrics.total_processed_windows > 0
                     /\ 10 * metrics.total_errors > metrics.total_processed_windows
             IN  threads'.health.status =
                     IF inactive \/ failing THEN "degraded" ELSE "healthy"]_vars

\* A worker with recent activity is reported degraded through its error
\* rate: 11 errors on 109 windows.
C39_Witness ==
    /\ threads.health.pc = "returned"
    /\ threads.health.status = "degraded"
    /\ threads.scheduler.calls = 0
    /\ metrics.total_errors = 11
    /\ metrics.total_processed_windows = 109
    /\ \E t \in Stamps(metrics) : now - t <= 3 * LOOP_INTERVAL_SECONDS

====
